---- MODULE Spec2Model ----
(***************************************************************************)
(* SkateIQ caching layer (src/caching.py): CacheEntry, LRUCache and the    *)
(* `cached` memoization decorator.                                         *)
(*                                                                         *)
(* Spec     : every LRUCache method is one atomic step (the body of its    *)
(*            `with self.lock:` block); callers of the decorator's wrapper *)
(*            take three steps (lookup, call of the function, store).      *)
(* SpecConc : the bodies of the methods are split at their statements and  *)
(*            the lock is modelled, to check that the lock makes the       *)
(*            methods atomic.                                              *)
(***************************************************************************)
EXTENDS Integers, Sequences, FiniteSets, TLC

(* ---- bounds of the model ---- *)
MaxTime == 2        \* the clock runs over 0..MaxTime
MaxGets == 2        \* Spec: get is called while hits + misses < MaxGets
MaxCount == 5       \* SpecStats: the counters start anywhere in 0..MaxCount
MaxLookups == 2     \* SpecMemo: a wrapper looks up while hits + misses < MaxLookups
MaxConcTime == 1    \* SpecConc: the clock runs over 0..MaxConcTime
MaxBucketTime == 4  \* SpecBucket: the clock runs over 0..MaxBucketTime
MaxCalls == 5       \* SpecBucket: the bucket is called MaxCalls times
MaxConcCalls == 3   \* SpecBucketConc: the threads call the bucket MaxConcCalls times
MaxSecs == 1        \* SpecMw: seconds that pass one by one after each cleanup interval
MaxIntervals == 1   \* SpecMw: whole cleanup intervals that pass
MaxReqs == 3        \* SpecMw: requests handled
MaxIpTime == 3      \* SpecIp: the clock runs over 0..MaxIpTime
MaxIpCalls == 4     \* SpecIp: the limiter is called MaxIpCalls times
MaxHours == 2       \* SpecPred: the clock runs over 0..MaxHours hours
MaxPredGets == 2    \* SpecPred: get_prediction is called while hits + misses < MaxPredGets
MaxRetries == 2     \* SpecRetry: RetryConfig(max_retries) is in 0..MaxRetries
MaxFsTime == 2      \* SpecFs: the clock runs over 0..MaxFsTime
MaxFaults == 1      \* SpecFs: filesystem calls that fail

None == "None"
Keys == {"a", "b", "c"}
Values == {"v", None}
NoTtl == -1         \* the ttl argument None (`ttl: Optional[int] = None`)
TtlArgs == {NoTtl, 0, 1}
Capacities == {1, 2}
DefaultTtls == {2}

VARIABLES
    now,          \* datetime.now()
    max_size,     \* LRUCache.max_size
    default_ttl,  \* LRUCache.default_ttl
    cache,        \* LRUCache.cache: OrderedDict as a sequence, oldest first
    hits,         \* LRUCache._hits
    misses,       \* LRUCache._misses
    last,         \* the last completed call: its arguments and result
    recency,      \* the stored keys, by their most recent set or successful get
    gH,           \* gets since construction/clear that found a fresh entry
    gM,           \* gets since construction/clear that found none, or an expired one
    wr,           \* the callers of a decorated function: where each is in wrapper()
    failed,       \* keys whose function raised in a call that overlapped no other
                  \* call of a wrapper, nothing stored under them since
    lock,         \* LRUCache.lock: the thread that holds it, or None
    th,           \* the threads of SpecConc: where each is inside a method
    bucket,       \* a TokenBucket: capacity, refill_rate, tokens, last_refill, lock
    bth,          \* the threads calling the bucket: where each is inside a method
    acct,         \* the calls of the bucket completed so far, for the claims
    mw,           \* a RateLimitMiddleware: its buckets, last_cleanup and settings
    reqs,         \* the requests inside dispatch: where each is suspended
    mlog,         \* the requests dispatch has handled, in the order they came
    ipl,          \* an IPRateLimiter: its settings and timestamp lists
    iplog,        \* the calls of the IPRateLimiter completed so far
    pred,         \* the last call of the PredictionCache and the predictions set
    rt,           \* the call through retry_with_backoff: config, position, invocations
    fc,           \* a FilesystemCache: its ttl and the file of one key
    fth           \* the threads calling the FilesystemCache: where each is inside a method

lru == <<now, max_size, default_ttl, cache, hits, misses, last, recency, gH, gM>>
memo == <<wr, failed>>
conc == <<lock, th>>
ratelimit == <<mw, reqs, mlog>>
window == <<ipl, iplog>>
wrappers == <<pred, rt, fc, fth>>
rest == <<bucket, bth, acct, ratelimit, window, wrappers>>
vars == <<lru, memo, conc, rest>>

(* ---- CacheEntry ---- *)
CacheEntry(key, value, ttl, t) ==
    [key |-> key, value |-> value, created_at |-> t, expires_at |-> t + ttl,
     access_count |-> 0, last_accessed |-> t]

is_expired_Late(e, t) == t > e.expires_at

is_expired(e, t) == t >= e.expires_at

access_Extends(e, t) ==
    [e EXCEPT !.access_count = @ + 1, !.last_accessed = t, !.expires_at = @ + 1]

access_Uncounted(e, t) == [e EXCEPT !.last_accessed = t]

access(e, t) == [e EXCEPT !.access_count = @ + 1, !.last_accessed = t]

(* ---- OrderedDict ---- *)
HasKey(c, k) == \E i \in 1..Len(c) : c[i].key = k

Entry(c, k) == c[CHOOSE i \in 1..Len(c) : c[i].key = k]

DelKey(c, k) == SelectSeq(c, LAMBDA e : e.key # k)

move_to_end_Noop(c, k) == c

move_to_end(c, k) == DelKey(c, k) \o <<Entry(c, k)>>

KeySet(c) == {c[i].key : i \in 1..Len(c)}

\* the entry object under k is mutated in place
SetEntry(c, k, e) == [i \in 1..Len(c) |-> IF c[i].key = k THEN e ELSE c[i]]

(* ---- LRUCache: each operator is the body of one `with self.lock:` block ---- *)
(* A cache state is [cache, hits, misses]; t is datetime.now().                *)

get_NoneIsMiss(S, key, t) ==
    IF ~HasKey(S.cache, key)
    THEN [S |-> [S EXCEPT !.misses = @ + 1], ret |-> None]
    ELSE LET entry == Entry(S.cache, key) IN
         IF is_expired(entry, t)
         THEN [S |-> [S EXCEPT !.cache = DelKey(@, key), !.misses = @ + 1],
               ret |-> None]
         ELSE IF entry.value = None
         THEN [S |-> [S EXCEPT !.misses = @ + 1], ret |-> None]
         ELSE [S |-> [S EXCEPT !.cache = SetEntry(move_to_end(@, key), key, access(entry, t)),
                                !.hits = @ + 1],
               ret |-> entry.value]

get(S, key, t) ==
    IF ~HasKey(S.cache, key)
    THEN [S |-> [S EXCEPT !.misses = @ + 1], ret |-> None]
    ELSE LET entry == Entry(S.cache, key) IN
         IF is_expired(entry, t)
         THEN [S |-> [S EXCEPT !.cache = DelKey(@, key), !.misses = @ + 1],
               ret |-> None]
         ELSE [S |-> [S EXCEPT !.cache = SetEntry(move_to_end(@, key), key, access(entry, t)),
                                !.hits = @ + 1],
               ret |-> entry.value]

\* `ttl = ttl or self.default_ttl`: None and 0 are both falsy
TtlOrDefault(ttl, dflt) == IF ttl = NoTtl \/ ttl = 0 THEN dflt ELSE ttl

\* `while len(self.cache) >= self.max_size: del self.cache[next(iter(self.cache))]`
EvictOldest_OffByOne(c, max) == IF Len(c) > max THEN Tail(c) ELSE c

RECURSIVE EvictOldest(_, _)
EvictOldest(c, max) == IF Len(c) >= max THEN EvictOldest(Tail(c), max) ELSE c

set_SweepsFirst(S, key, value, ttl, t, max, dflt) ==
    LET ttl1 == TtlOrDefault(ttl, dflt)
        c1 == IF HasKey(S.cache, key) THEN DelKey(S.cache, key) ELSE S.cache
        c2 == EvictOldest(SelectSeq(c1, LAMBDA e : ~is_expired(e, t)), max)
    IN  [S EXCEPT !.cache = c2 \o <<CacheEntry(key, value, ttl1, t)>>]

set(S, key, value, ttl, t, max, dflt) ==
    LET ttl1 == TtlOrDefault(ttl, dflt)
        c1 == IF HasKey(S.cache, key) THEN DelKey(S.cache, key) ELSE S.cache
        c2 == EvictOldest(c1, max)
    IN  [S EXCEPT !.cache = c2 \o <<CacheEntry(key, value, ttl1, t)>>]

delete_AlwaysTrue(S, key) == [S |-> [S EXCEPT !.cache = DelKey(@, key)], ret |-> TRUE]

delete(S, key) ==
    IF HasKey(S.cache, key)
    THEN [S |-> [S EXCEPT !.cache = DelKey(@, key)], ret |-> TRUE]
    ELSE [S |-> S, ret |-> FALSE]

clear_KeepsMisses(S) == [S EXCEPT !.cache = <<>>, !.hits = 0]

clear(S) == [S EXCEPT !.cache = <<>>, !.hits = 0, !.misses = 0]

cleanup_expired_First(S, t) ==
    LET expired == {j \in 1..Len(S.cache) : is_expired(S.cache[j], t)}
        first == CHOOSE j \in expired : \A i \in expired : j <= i
    IN  IF expired = {} THEN [S |-> S, ret |-> 0]
        ELSE [S |-> [S EXCEPT !.cache = DelKey(@, S.cache[first].key)], ret |-> 1]

cleanup_expired(S, t) ==
    LET expired_keys == {S.cache[i].key : i \in {j \in 1..Len(S.cache) : is_expired(S.cache[j], t)}}
    IN  [S |-> [S EXCEPT !.cache = SelectSeq(@, LAMBDA e : e.key \notin expired_keys)],
         ret |-> Cardinality(expired_keys)]

Round2_Truncates(num, den) == (num * 100) \div den

\* round(x, 2) of x = num/den, in hundredths: nearest, ties to even
Round2(num, den) ==
    LET q == (num * 100) \div den
        r == (num * 100) % den
    IN  IF 2 * r > den THEN q + 1
        ELSE IF 2 * r < den THEN q
        ELSE IF q % 2 = 0 THEN q ELSE q + 1

get_stats(S, max) ==
    LET total_requests == S.hits + S.misses IN
    [size |-> Len(S.cache), max_size |-> max, hits |-> S.hits, misses |-> S.misses,
     hit_rate |-> IF total_requests > 0 THEN Round2(S.hits * 100, total_requests) ELSE 0,
     total_requests |-> total_requests]

(* ---- the specification: atomic calls ---- *)
St == [cache |-> cache, hits |-> hits, misses |-> misses]

\* what a call finds under its key, read off the entries themselves
Found(c, k, t) ==
    IF \A i \in 1..Len(c) : c[i].key # k THEN "absent"
    ELSE IF \E i \in 1..Len(c) : c[i].key = k /\ c[i].expires_at <= t THEN "expired"
    ELSE "fresh"

\* the keys of c1 in the order of their last touch, k (if any) touched now
Touch(c1, k) ==
    LET old == SelectSeq(recency, LAMBDA x : x # k /\ \E i \in 1..Len(c1) : c1[i].key = x)
    IN  IF k # None THEN old \o <<k>> ELSE old

NoStats == [size |-> 0, max_size |-> 0, hits |-> 0, misses |-> 0, hit_rate |-> 0,
            total_requests |-> 0]

\* the record of a completed call (or of a tick of the clock): ret is the value get returned, ok the bool
\* delete returned, count the number cleanup_expired returned, stats the dict
\* get_stats returned; removed = the keys the call took out of the cache; who is
\* the caller of the decorated function whose wrapper() made the call, retry
\* tells that the function raised under this key before; at is the time of the
\* call
Call(op, key, S1) ==
    [op |-> op, key |-> key, value |-> None, ttl |-> NoTtl, who |-> None, retry |-> FALSE,
     at |-> now,
     ret |-> None, ok |-> FALSE, count |-> 0, stats |-> NoStats,
     found |-> "absent", removed |-> KeySet(cache) \ KeySet(S1.cache)]

Callers == {"w1", "w2"}
Threads == {"t1", "t2"}

NoEntry == [key |-> None, value |-> None, created_at |-> 0, expires_at |-> 0,
            access_count |-> 0, last_accessed |-> 0]

\* a thread: pc is its place in the method op(key, value, ttl); entry and
\* expired_keys are the method's locals; before is the cache at the time the
\* thread entered `with self.lock:`
Free == [pc |-> "idle", op |-> None, key |-> None, value |-> None, ttl |-> NoTtl,
         entry |-> NoEntry, expired_keys |-> {},
         before |-> [cache |-> <<>>, hits |-> 0, misses |-> 0]]

\* a caller: pc is its place in wrapper(); key, ttl, result are wrapper's
\* locals; retry, before (the cache when the call began) and alone (no other
\* caller was inside wrapper() then) are kept for the claims
Idle == [pc |-> "idle", key |-> None, ttl |-> NoTtl, result |-> None, retry |-> FALSE,
         before |-> [cache |-> <<>>, hits |-> 0, misses |-> 0], alone |-> FALSE]

\* the rate limiters before any of them is constructed
NoBucket == [capacity |-> 0, refill_rate |-> 0, tokens |-> 0, last_refill |-> 0, lock |-> None]

\* a thread of the bucket: pc is its place in op(n); now and tokens_to_add are
\* the locals of _refill; before is the bucket when the thread took the lock
Out == [pc |-> "idle", op |-> None, n |-> 0, now |-> 0, tokens_to_add |-> 0,
       before |-> NoBucket]

RestInit ==
    /\ bucket = NoBucket
    /\ bth = [t \in Threads |-> Out]
    /\ acct = <<>>
    /\ mw = [burst_size |-> 0]
    /\ reqs = <<>>
    /\ mlog = <<>>
    /\ ipl = [max_requests |-> 0]
    /\ iplog = <<>>
    /\ pred = <<>>
    /\ rt = <<>>
    /\ fc = <<>>
    /\ fth = <<>>

Init ==
    /\ wr = [w \in Callers |-> Idle]
    /\ lock = None
    /\ th = [t \in Threads |-> Free]
    /\ RestInit
    /\ failed = {}
    /\ now = 0
    /\ max_size \in Capacities
    /\ default_ttl \in DefaultTtls
    /\ cache = <<>>
    /\ hits = 0
    /\ misses = 0
    /\ last = Call("init", None, St)
    /\ recency = <<>>
    /\ gH = 0
    /\ gM = 0

Tick ==
    /\ now < MaxTime
    /\ now' = now + 1
    /\ last' = Call("tick", None, St)
    /\ UNCHANGED <<max_size, default_ttl, cache, hits, misses, recency, gH, gM, memo, conc, rest>>

Apply(S1) ==
    /\ cache' = S1.cache
    /\ hits' = S1.hits
    /\ misses' = S1.misses
    /\ UNCHANGED <<now, max_size, default_ttl>>

GetStep(k) ==
    /\ LET r == get(St, k, now)
           f == Found(cache, k, now)
       IN  /\ Apply(r.S)
           /\ last' = [Call("get", k, r.S) EXCEPT !.ret = r.ret, !.found = f]
           /\ recency' = IF f = "fresh" THEN Touch(cache, k)
                         ELSE SelectSeq(recency, LAMBDA x : x # k)
           /\ gH' = IF f = "fresh" THEN gH + 1 ELSE gH
           /\ gM' = IF f = "fresh" THEN gM ELSE gM + 1

DoGet(k) == hits + misses < MaxGets /\ GetStep(k) /\ UNCHANGED <<memo, conc, rest>>

SetStep(k, v, ttl) ==
    /\ LET S1 == set(St, k, v, ttl, now, max_size, default_ttl) IN
       /\ Apply(S1)
       /\ last' = [Call("set", k, S1) EXCEPT !.value = v, !.ttl = ttl, !.found = Found(cache, k, now)]
       /\ recency' = Touch(S1.cache, k)
       /\ UNCHANGED <<gH, gM>>

DoSet(k, v, ttl) == SetStep(k, v, ttl) /\ UNCHANGED <<memo, conc, rest>>

DeleteStep(k) ==
    /\ LET r == delete(St, k) IN
       /\ Apply(r.S)
       /\ last' = [Call("delete", k, r.S) EXCEPT !.ok = r.ret, !.found = Found(cache, k, now)]
       /\ recency' = Touch(r.S.cache, None)
       /\ UNCHANGED <<gH, gM>>

DoDelete(k) == DeleteStep(k) /\ UNCHANGED <<memo, conc, rest>>

DoClear ==
    /\ UNCHANGED <<memo, conc, rest>>
    /\ Apply(clear(St))
    /\ last' = Call("clear", None, clear(St))
    /\ recency' = <<>>
    /\ gH' = 0
    /\ gM' = 0

DoCleanup ==
    /\ UNCHANGED <<memo, conc, rest>>
    /\ LET r == cleanup_expired(St, now) IN
       /\ Apply(r.S)
       /\ last' = [Call("cleanup_expired", None, r.S) EXCEPT !.count = r.ret]
       /\ recency' = Touch(r.S.cache, None)
       /\ UNCHANGED <<gH, gM>>

DoStats ==
    /\ UNCHANGED <<memo, conc, rest>>
    /\ Apply(St)
    /\ last' = [Call("get_stats", None, St) EXCEPT !.stats = get_stats(St, max_size)]
    /\ UNCHANGED <<recency, gH, gM>>

Next ==
    \/ Tick
    \/ \E k \in Keys : DoGet(k)
    \/ \E k \in Keys, v \in Values, ttl \in TtlArgs : DoSet(k, v, ttl)
    \/ \E k \in Keys : DoDelete(k)
    \/ DoClear
    \/ DoCleanup
    \/ DoStats

Spec == Init /\ [][Next]_vars

(* ---- SpecStats: the same calls on one key, the counters starting anywhere ---- *)
InitStats ==
    /\ wr = [w \in Callers |-> Idle]
    /\ lock = None
    /\ th = [t \in Threads |-> Free]
    /\ RestInit
    /\ failed = {}
    /\ now = 0
    /\ max_size = 1
    /\ default_ttl \in DefaultTtls
    /\ cache = <<>>
    /\ hits \in 0..MaxCount
    /\ misses \in 0..MaxCount
    /\ last = Call("init", None, St)
    /\ recency = <<>>
    /\ gH = hits
    /\ gM = misses

NextStats ==
    \/ Tick
    \/ (hits + misses < 2 * MaxCount + 2 /\ GetStep("a") /\ UNCHANGED <<memo, conc, rest>>)
    \/ \E ttl \in {NoTtl, 1} : DoSet("a", "v", ttl)
    \/ DoDelete("a")
    \/ DoClear
    \/ DoCleanup
    \/ DoStats

SpecStats == InitStats /\ [][NextStats]_vars

(* ---- the decorator `cached(cache, ttl, key_func)` ---- *)
\* the decorated functions: their __name__, the decorator's ttl, and whether a
\* key_func was given
Funcs == {[name |-> "f", ttl |-> NoTtl, custom |-> FALSE],
          [name |-> "g", ttl |-> 1, custom |-> TRUE],
          [name |-> "h", ttl |-> 0, custom |-> TRUE]}
Args == {"x", "y"}
Raises == "raises"        \* the function raises instead of returning
Exc == "Exception"

\* f"{func.__name__}:{args}:{sorted(kwargs.items())}" for the call func(a)
KeyData(name, a) == name \o ":('" \o a \o "',):[]"

\* hashlib.md5(...).hexdigest(): a digest determined by the data (collisions
\* between the few data strings here are left out)
Md5(data) == "md5<" \o data \o ">"

\* a key_func: any function of the arguments
KeyFunc(a) == "user:" \o a

CacheKey(fn, a) == IF fn.custom THEN KeyFunc(a) ELSE Md5(KeyData(fn.name, a))

AfterRaise_Stores(S, key, ttl, t, max, dflt) == set(S, key, Exc, ttl, t, max, dflt)

\* the cache after the function raised: the exception leaves wrapper() before
\* cache.set is reached
AfterRaise(S, key, ttl, t, max, dflt) == S

\* wrapper(): cache_key, cached_result = cache.get(cache_key), return on a hit
WLookup(w, fn, a) ==
    /\ wr[w].pc = "idle"
    /\ hits + misses < MaxLookups
    /\ LET key == CacheKey(fn, a)
           r == get(St, key, now)
           f == Found(cache, key, now)
       IN  /\ Apply(r.S)
           /\ last' = [Call("get", key, r.S) EXCEPT !.ret = r.ret, !.found = f, !.who = w,
                                                    !.retry = (key \in failed)]
           /\ recency' = IF f = "fresh" THEN Touch(cache, key)
                         ELSE SelectSeq(recency, LAMBDA x : x # key)
           /\ gH' = IF f = "fresh" THEN gH + 1 ELSE gH
           /\ gM' = IF f = "fresh" THEN gM ELSE gM + 1
           /\ wr' = [wr EXCEPT ![w] =
                 IF r.ret # None THEN Idle
                 ELSE [Idle EXCEPT !.pc = "call", !.key = key, !.ttl = fn.ttl,
                                   !.retry = (key \in failed), !.before = St,
                                   !.alone = (\A v \in Callers : wr[v].pc = "idle")]]
           /\ UNCHANGED <<failed, conc, rest>>

\* the caller w was alone in the cache from the start of its call to now
Alone(w) == wr[w].alone /\ hits + misses = wr[w].before.hits + wr[w].before.misses + 1

\* result = func(*args, **kwargs): it returns a value or raises
WInvoke(w, outcome) ==
    /\ wr[w].pc = "call"
    /\ IF outcome = Raises
       THEN /\ Apply(AfterRaise(St, wr[w].key, wr[w].ttl, now, max_size, default_ttl))
            /\ wr' = [wr EXCEPT ![w] = Idle]
            /\ failed' = IF Alone(w) THEN failed \cup {wr[w].key} ELSE failed
       ELSE /\ Apply(St)
            /\ wr' = [wr EXCEPT ![w] = [@ EXCEPT !.pc = "store", !.result = outcome]]
            /\ UNCHANGED failed
    /\ last' = [Call("func", wr[w].key, St) EXCEPT !.ret = outcome, !.who = w,
                                                   !.retry = wr[w].retry]
    /\ UNCHANGED <<recency, gH, gM, conc, rest>>

WStore_KeepsFirst(w) ==
    /\ wr[w].pc = "store"
    /\ LET S1 == IF HasKey(cache, wr[w].key) THEN St
                 ELSE set(St, wr[w].key, wr[w].result, wr[w].ttl, now, max_size, default_ttl) IN
       /\ Apply(S1)
       /\ last' = [Call("set", wr[w].key, S1) EXCEPT
                       !.value = wr[w].result, !.ttl = wr[w].ttl,
                       !.found = Found(cache, wr[w].key, now),
                       !.who = w, !.retry = wr[w].retry]
       /\ recency' = Touch(S1.cache, wr[w].key)
    /\ wr' = [wr EXCEPT ![w] = Idle]
    /\ failed' = failed \ {wr[w].key}
    /\ UNCHANGED <<gH, gM, conc, rest>>

\* cache.set(cache_key, result, ttl); return result
WStore(w) ==
    /\ wr[w].pc = "store"
    /\ LET S1 == set(St, wr[w].key, wr[w].result, wr[w].ttl, now, max_size, default_ttl) IN
       /\ Apply(S1)
       /\ last' = [Call("set", wr[w].key, S1) EXCEPT
                       !.value = wr[w].result, !.ttl = wr[w].ttl,
                       !.found = Found(cache, wr[w].key, now),
                       !.who = w, !.retry = wr[w].retry]
       /\ recency' = Touch(S1.cache, wr[w].key)
    /\ wr' = [wr EXCEPT ![w] = Idle]
    /\ failed' = failed \ {wr[w].key}
    /\ UNCHANGED <<gH, gM, conc, rest>>

NextMemo ==
    \/ Tick
    \/ \E w \in Callers, fn \in Funcs, a \in Args : WLookup(w, fn, a)
    \/ \E w \in Callers, outcome \in Values \cup {Raises} : WInvoke(w, outcome)
    \/ \E w \in Callers : WStore(w)

SpecMemo == Init /\ [][NextMemo]_vars

(* ---- SpecConc: threads inside the methods, statement by statement ---- *)
ConcKeys == {"a", "b"}
ConcTtls == {NoTtl, 1}
ConcValues == {"v"}

\* the calls a thread makes; value and ttl matter to set only
Calls ==
    [op : {"get", "delete"}, key : ConcKeys, value : {None}, ttl : {NoTtl}]
    \cup [op : {"set"}, key : ConcKeys, value : ConcValues, ttl : ConcTtls]
    \cup [op : {"clear", "cleanup_expired"}, key : {None}, value : {None}, ttl : {NoTtl}]

\* the first statement of each method's `with self.lock:` block
Entry0(op) ==
    CASE op = "get" -> "get_72"
      [] op = "set" -> "set_103"
      [] op = "delete" -> "delete_127"
      [] op = "clear" -> "clear_136"
      [] OTHER -> "cleanup_149"

KeyError == "KeyError"
StopIteration == "StopIteration"

\* RLock.acquire: free, or held by the same thread
Acquirable_Unlocked(t) == TRUE

Acquirable(t) == lock = None \/ lock = t

\* the clock of SpecConc: methods are short, the clock does not advance while
\* a thread is inside one
TickConc ==
    /\ now < MaxConcTime
    /\ \A t \in Threads : th[t].pc = "idle"
    /\ now' = now + 1
    /\ UNCHANGED <<max_size, default_ttl, cache, hits, misses, last, recency, gH, gM, memo, conc, rest>>

\* `with self.lock:` entered by thread t calling c
Enter(t, c) ==
    /\ th[t].pc = "idle"
    /\ Acquirable(t)
    /\ c.op = "get" => hits + misses < MaxGets
    /\ lock' = t
    /\ th' = [th EXCEPT ![t] = [Free EXCEPT !.pc = Entry0(c.op), !.op = c.op, !.key = c.key,
                                            !.value = c.value, !.ttl = c.ttl, !.before = St]]
    /\ UNCHANGED <<lru, memo, rest>>

\* thread t goes on to the statement at pc, its local entry being e
Goto(t, pc, e) ==
    /\ th' = [th EXCEPT ![t].pc = pc, ![t].entry = e]
    /\ UNCHANGED <<lock, last>>

\* thread t leaves the `with` block, by return or by an exception: ret, ok and
\* count as in Call
Leave(t, S1, ret, ok, count) ==
    /\ lock' = None
    /\ th' = [th EXCEPT ![t] = Free]
    /\ last' = [Call(th[t].op, th[t].key, S1) EXCEPT !.value = th[t].value, !.ttl = th[t].ttl,
                    !.who = t, !.ret = ret, !.ok = ok, !.count = count,
                    !.removed = KeySet(th[t].before.cache) \ KeySet(S1.cache)]

ConcFrame == UNCHANGED <<now, max_size, default_ttl, recency, gH, gM, memo, rest>>

Shared(c1, h1, m1) == cache' = c1 /\ hits' = h1 /\ misses' = m1

\* l.72-74  if key not in self.cache: self._misses += 1; return None
Get72(t) ==
    /\ th[t].pc = "get_72"
    /\ ConcFrame
    /\ IF ~HasKey(cache, th[t].key)
       THEN Shared(cache, hits, misses + 1)
            /\ Leave(t, [St EXCEPT !.misses = @ + 1], None, FALSE, 0)
       ELSE Shared(cache, hits, misses) /\ Goto(t, "get_76", NoEntry)

\* l.76-79  entry = self.cache[key]; if entry.is_expired():
Get76(t) ==
    /\ th[t].pc = "get_76"
    /\ ConcFrame
    /\ Shared(cache, hits, misses)
    /\ IF ~HasKey(cache, th[t].key)
       THEN Leave(t, St, KeyError, FALSE, 0)
       ELSE LET entry == Entry(cache, th[t].key) IN
            Goto(t, IF is_expired(entry, now) THEN "get_80" ELSE "get_85", entry)

\* l.80-82  del self.cache[key]; self._misses += 1; return None
Get80(t) ==
    /\ th[t].pc = "get_80"
    /\ ConcFrame
    /\ IF ~HasKey(cache, th[t].key)
       THEN Shared(cache, hits, misses) /\ Leave(t, St, KeyError, FALSE, 0)
       ELSE LET S1 == [St EXCEPT !.cache = DelKey(@, th[t].key), !.misses = @ + 1] IN
            Shared(S1.cache, S1.hits, S1.misses) /\ Leave(t, S1, None, FALSE, 0)

\* l.85-86  self.cache.move_to_end(key); self._hits += 1
Get85(t) ==
    /\ th[t].pc = "get_85"
    /\ ConcFrame
    /\ IF ~HasKey(cache, th[t].key)
       THEN Shared(cache, hits, misses) /\ Leave(t, St, KeyError, FALSE, 0)
       ELSE Shared(move_to_end(cache, th[t].key), hits + 1, misses)
            /\ Goto(t, "get_88", th[t].entry)

\* l.88  return entry.access(): the entry object is updated in place, in the
\* cache if it is still the one stored under the key
Get88(t) ==
    /\ th[t].pc = "get_88"
    /\ ConcFrame
    /\ LET k == th[t].key
           c1 == IF HasKey(cache, k) /\ Entry(cache, k) = th[t].entry
                 THEN SetEntry(cache, k, access(th[t].entry, now)) ELSE cache
       IN  Shared(c1, hits, misses)
           /\ Leave(t, [St EXCEPT !.cache = c1], th[t].entry.value, FALSE, 0)

\* l.100-104  ttl = ttl or self.default_ttl; if key in self.cache: del self.cache[key]
Set103(t) ==
    /\ th[t].pc = "set_103"
    /\ ConcFrame
    /\ Shared(IF HasKey(cache, th[t].key) THEN DelKey(cache, th[t].key) ELSE cache, hits, misses)
    /\ Goto(t, "set_107", NoEntry)

\* l.107-109  while len(self.cache) >= self.max_size: one turn of the loop
Set107(t) ==
    /\ th[t].pc = "set_107"
    /\ ConcFrame
    /\ IF Len(cache) >= max_size
       THEN IF Len(cache) = 0
            THEN Shared(cache, hits, misses) /\ Leave(t, St, StopIteration, FALSE, 0)
            ELSE Shared(Tail(cache), hits, misses) /\ Goto(t, "set_107", NoEntry)
       ELSE Shared(cache, hits, misses) /\ Goto(t, "set_113", NoEntry)

\* l.113  self.cache[key] = CacheEntry(key, value, ttl)
Set113(t) ==
    /\ th[t].pc = "set_113"
    /\ ConcFrame
    /\ LET k == th[t].key
           e == CacheEntry(k, th[t].value, TtlOrDefault(th[t].ttl, default_ttl), now)
           c1 == IF HasKey(cache, k) THEN SetEntry(cache, k, e) ELSE cache \o <<e>>
       IN  Shared(c1, hits, misses) /\ Leave(t, [St EXCEPT !.cache = c1], None, FALSE, 0)

\* l.127, 131  if key in self.cache: ... return False
Delete127(t) ==
    /\ th[t].pc = "delete_127"
    /\ ConcFrame
    /\ Shared(cache, hits, misses)
    /\ IF HasKey(cache, th[t].key)
       THEN Goto(t, "delete_128", NoEntry)
       ELSE Leave(t, St, None, FALSE, 0)

\* l.128-130  del self.cache[key]; return True
Delete128(t) ==
    /\ th[t].pc = "delete_128"
    /\ ConcFrame
    /\ IF ~HasKey(cache, th[t].key)
       THEN Shared(cache, hits, misses) /\ Leave(t, St, KeyError, FALSE, 0)
       ELSE LET c1 == DelKey(cache, th[t].key) IN
            Shared(c1, hits, misses) /\ Leave(t, [St EXCEPT !.cache = c1], None, TRUE, 0)

\* l.136  self.cache.clear()
Clear136(t) ==
    /\ th[t].pc = "clear_136"
    /\ ConcFrame
    /\ Shared(<<>>, hits, misses)
    /\ Goto(t, "clear_137", NoEntry)

\* l.137  self._hits = 0
Clear137(t) ==
    /\ th[t].pc = "clear_137"
    /\ ConcFrame
    /\ Shared(cache, 0, misses)
    /\ Goto(t, "clear_138", NoEntry)

\* l.138  self._misses = 0
Clear138(t) ==
    /\ th[t].pc = "clear_138"
    /\ ConcFrame
    /\ Shared(cache, hits, 0)
    /\ Leave(t, [St EXCEPT !.misses = 0], None, FALSE, 0)

\* l.149-152  expired_keys = [key for key, entry in self.cache.items() if entry.is_expired()]
Cleanup149(t) ==
    /\ th[t].pc = "cleanup_149"
    /\ ConcFrame
    /\ Shared(cache, hits, misses)
    /\ th' = [th EXCEPT ![t].pc = "cleanup_154",
                        ![t].expired_keys = {cache[i].key : i \in {j \in 1..Len(cache) :
                                                                   is_expired(cache[j], now)}}]
    /\ UNCHANGED <<lock, last>>

\* l.154-160  for key in expired_keys: del self.cache[key]; return len(expired_keys)
Cleanup154(t) ==
    /\ th[t].pc = "cleanup_154"
    /\ ConcFrame
    /\ LET ks == th[t].expired_keys
           c1 == SelectSeq(cache, LAMBDA e : e.key \notin ks)
       IN  IF ks \subseteq KeySet(cache)
           THEN Shared(c1, hits, misses)
                /\ Leave(t, [St EXCEPT !.cache = c1], None, FALSE, Cardinality(ks))
           ELSE \E gone \in ks \ KeySet(cache) :
                    \E del \in SUBSET (ks \cap KeySet(cache)) :
                        LET c2 == SelectSeq(cache, LAMBDA e : e.key \notin del) IN
                        Shared(c2, hits, misses)
                        /\ Leave(t, [St EXCEPT !.cache = c2], KeyError, FALSE, 0)

NextConc ==
    \/ TickConc
    \/ \E t \in Threads, c \in Calls : Enter(t, c)
    \/ \E t \in Threads : Get72(t)
    \/ \E t \in Threads : Get76(t)
    \/ \E t \in Threads : Get80(t)
    \/ \E t \in Threads : Get85(t)
    \/ \E t \in Threads : Get88(t)
    \/ \E t \in Threads : Set103(t)
    \/ \E t \in Threads : Set107(t)
    \/ \E t \in Threads : Set113(t)
    \/ \E t \in Threads : Delete127(t)
    \/ \E t \in Threads : Delete128(t)
    \/ \E t \in Threads : Clear136(t)
    \/ \E t \in Threads : Clear137(t)
    \/ \E t \in Threads : Clear138(t)
    \/ \E t \in Threads : Cleanup149(t)
    \/ \E t \in Threads : Cleanup154(t)

SpecConc == Init /\ [][NextConc]_vars

(* ---- TokenBucket (src/middleware.py) ---- *)
(* Token counts are floats in the source; the model counts them in units of  *)
(* 1/TokenUnit token and the time in whole seconds, so that refill_rate (in  *)
(* units per second) and every product elapsed * refill_rate are exact.      *)
TokenUnit == 2
BucketCaps == {1, 2}
Rates == {1, 2}             \* 0.5 and 1 token per second
Amounts == {1, 2}           \* the argument of consume

\* TokenBucket.__init__ at time t
TokenBucket(capacity, refill_rate, t) ==
    [capacity |-> capacity, refill_rate |-> refill_rate, tokens |-> capacity * TokenUnit,
     last_refill |-> t, lock |-> None]

Min(x, y) == IF x <= y THEN x ELSE y

refill_Uncapped(b, t) ==
    [b EXCEPT !.tokens = b.tokens + (t - b.last_refill) * b.refill_rate, !.last_refill = t]

refill_Stale(b, t) == [b EXCEPT !.last_refill = t]

\* TokenBucket._refill at time t
refill(b, t) ==
    LET elapsed == t - b.last_refill
        tokens_to_add == elapsed * b.refill_rate
    IN  [b EXCEPT !.tokens = Min(b.capacity * TokenUnit, b.tokens + tokens_to_add),
                  !.last_refill = t]

consume_Debt(b, tokens, t) ==
    [b |-> [refill(b, t) EXCEPT !.tokens = @ - tokens * TokenUnit], ret |-> TRUE]

\* the body of consume's `with self.lock:` block
consume(b, tokens, t) ==
    LET b1 == refill(b, t) IN
    IF b1.tokens >= tokens * TokenUnit
    THEN [b |-> [b1 EXCEPT !.tokens = @ - tokens * TokenUnit], ret |-> TRUE]
    ELSE [b |-> b1, ret |-> FALSE]

get_tokens_Takes(b, t) == [b |-> consume(b, 1, t).b, ret |-> refill(b, t).tokens]

\* the body of get_tokens' `with self.lock:` block
get_tokens(b, t) == [b |-> refill(b, t), ret |-> refill(b, t).tokens]

\* the record of a completed call of the bucket: found is the token count the
\* call found, tokens the count it left, ret the count get_tokens returned
BCall(op, n, b0, b1, ok, ret, who) ==
    [op |-> op, n |-> n, t |-> now, found |-> b0.tokens, since |-> b0.last_refill,
     tokens |-> b1.tokens, ok |-> ok, ret |-> ret, who |-> who]

lruRest == <<max_size, default_ttl, cache, hits, misses, last, recency, gH, gM>>

\* the caches, unused by the specifications of the rate limiters
CacheQuiet ==
    /\ wr = [w \in Callers |-> Idle]
    /\ lock = None
    /\ th = [t \in Threads |-> Free]
    /\ failed = {}
    /\ now = 0
    /\ max_size = 1
    /\ default_ttl = 2
    /\ cache = <<>>
    /\ hits = 0
    /\ misses = 0
    /\ last = Call("init", None, St)
    /\ recency = <<>>
    /\ gH = 0
    /\ gM = 0

InitBucket ==
    /\ CacheQuiet
    /\ \E c \in BucketCaps, r \in Rates : bucket = TokenBucket(c, r, 0)
    /\ bth = [t \in Threads |-> Out]
    /\ acct = <<>>
    /\ mw = [burst_size |-> 0]
    /\ reqs = <<>>
    /\ mlog = <<>>
    /\ ipl = [max_requests |-> 0]
    /\ iplog = <<>>
    /\ pred = <<>>
    /\ rt = <<>>
    /\ fc = <<>>
    /\ fth = <<>>

TickBucket ==
    /\ now < MaxBucketTime
    /\ \A t \in Threads : bth[t].pc = "idle"
    /\ now' = now + 1
    /\ UNCHANGED <<lruRest, memo, conc, rest>>

Consume(n) ==
    /\ Len(acct) < MaxCalls
    /\ LET r == consume(bucket, n, now) IN
       /\ bucket' = r.b
       /\ acct' = Append(acct, BCall("consume", n, bucket, r.b, r.ret, 0, None))
    /\ UNCHANGED <<lru, memo, conc, bth, ratelimit, window, wrappers>>

GetTokens ==
    /\ Len(acct) < MaxCalls
    /\ LET r == get_tokens(bucket, now) IN
       /\ bucket' = r.b
       /\ acct' = Append(acct, BCall("get_tokens", 0, bucket, r.b, FALSE, r.ret, None))
    /\ UNCHANGED <<lru, memo, conc, bth, ratelimit, window, wrappers>>

NextBucket ==
    \/ TickBucket
    \/ \E n \in Amounts : Consume(n)
    \/ GetTokens

SpecBucket == InitBucket /\ [][NextBucket]_vars

(* ---- SpecBucketConc: threads inside consume and get_tokens, statement by statement ---- *)
\* Lock.acquire: the lock is free (threading.Lock is not reentrant)
BucketLockFree_Ignored(b) == TRUE

BucketLockFree(b) == b.lock = None

BucketCalls == [op : {"consume"}, n : Amounts] \cup [op : {"get_tokens"}, n : {0}]

\* the clock may advance while a thread is inside a method: _refill reads it once
TickBucketConc ==
    /\ now < MaxConcTime
    /\ now' = now + 1
    /\ UNCHANGED <<lruRest, memo, conc, rest>>

BFrame == UNCHANGED <<lru, memo, conc, ratelimit, window, wrappers>>

\* l.42, l.62  with self.lock:
BEnter(t, c) ==
    /\ bth[t].pc = "idle"
    /\ BucketLockFree(bucket)
    /\ Len(acct) + Cardinality({u \in Threads : bth[u].pc # "idle"}) < MaxConcCalls
    /\ bucket' = [bucket EXCEPT !.lock = t]
    /\ bth' = [bth EXCEPT ![t] = [Out EXCEPT !.pc = "refill_52", !.op = c.op, !.n = c.n,
                                             !.before = bucket]]
    /\ UNCHANGED acct
    /\ BFrame

\* l.52  now = time.time()
Refill52(t) ==
    /\ bth[t].pc = "refill_52"
    /\ bth' = [bth EXCEPT ![t].pc = "refill_53", ![t].now = now]
    /\ UNCHANGED <<bucket, acct>>
    /\ BFrame

\* l.53-56  elapsed = now - self.last_refill; tokens_to_add = elapsed * self.refill_rate
Refill53(t) ==
    /\ bth[t].pc = "refill_53"
    /\ bth' = [bth EXCEPT ![t].pc = "refill_57",
                          ![t].tokens_to_add = (bth[t].now - bucket.last_refill) * bucket.refill_rate]
    /\ UNCHANGED <<bucket, acct>>
    /\ BFrame

\* l.57  self.tokens = min(self.capacity, self.tokens + tokens_to_add)
Refill57(t) ==
    /\ bth[t].pc = "refill_57"
    /\ bucket' = [bucket EXCEPT !.tokens = Min(bucket.capacity * TokenUnit,
                                               bucket.tokens + bth[t].tokens_to_add)]
    /\ bth' = [bth EXCEPT ![t].pc = "refill_58"]
    /\ UNCHANGED acct
    /\ BFrame

\* l.58  self.last_refill = now, and back in the caller of _refill
Refill58(t) ==
    /\ bth[t].pc = "refill_58"
    /\ bucket' = [bucket EXCEPT !.last_refill = bth[t].now]
    /\ bth' = [bth EXCEPT ![t].pc = IF bth[t].op = "consume" THEN "consume_45"
                                    ELSE "get_tokens_64"]
    /\ UNCHANGED acct
    /\ BFrame

\* thread t leaves the `with` block and returns
BLeave(t, b1, ok, ret) ==
    /\ bucket' = [b1 EXCEPT !.lock = None]
    /\ bth' = [bth EXCEPT ![t] = Out]
    /\ acct' = Append(acct, [BCall(bth[t].op, bth[t].n, bth[t].before, b1, ok, ret, t)
                               EXCEPT !.t = bth[t].now])

\* l.45, 48  if self.tokens >= tokens: ... return False
Consume45(t) ==
    /\ bth[t].pc = "consume_45"
    /\ IF bucket.tokens >= bth[t].n * TokenUnit
       THEN bth' = [bth EXCEPT ![t].pc = "consume_46"] /\ UNCHANGED <<bucket, acct>>
       ELSE BLeave(t, bucket, FALSE, 0)
    /\ BFrame

\* l.46-47  self.tokens -= tokens; return True
Consume46(t) ==
    /\ bth[t].pc = "consume_46"
    /\ BLeave(t, [bucket EXCEPT !.tokens = @ - bth[t].n * TokenUnit], TRUE, 0)
    /\ BFrame

\* l.64  return self.tokens
GetTokens64(t) ==
    /\ bth[t].pc = "get_tokens_64"
    /\ BLeave(t, bucket, FALSE, bucket.tokens)
    /\ BFrame

NextBucketConc ==
    \/ TickBucketConc
    \/ \E t \in Threads, c \in BucketCalls : BEnter(t, c)
    \/ \E t \in Threads : Refill52(t)
    \/ \E t \in Threads : Refill53(t)
    \/ \E t \in Threads : Refill57(t)
    \/ \E t \in Threads : Refill58(t)
    \/ \E t \in Threads : Consume45(t)
    \/ \E t \in Threads : Consume46(t)
    \/ \E t \in Threads : GetTokens64(t)

SpecBucketConc == InitBucket /\ [][NextBucketConc]_vars

(* ---- RateLimitMiddleware (src/middleware.py) ---- *)
(* dispatch is a coroutine: what it does between two awaits is one step.     *)
cleanup_interval == 300
Ids == {"x", "y"}
Paths == {"/health", "/api/health", "/api/predict"}
HealthPaths_OnlyHealth == {"/health"}
HealthPaths == {"/health", "/api/health"}
BurstSizes == {2, 20}
Rpms == {30}
Reqs == {"r1", "r2"}
Statuses == {200}               \* the responses of next

\* RateLimitMiddleware.__init__ at time t: buckets maps an identifier to the
\* index in objs of its TokenBucket, 0 when it has none; objs holds every
\* TokenBucket created so far
Middleware(burst_size, requests_per_minute, t) ==
    [burst_size |-> burst_size, requests_per_minute |-> requests_per_minute,
     buckets |-> [i \in Ids |-> 0], objs |-> <<>>, last_cleanup |-> t]

NoMiddleware == Middleware(0, 0, 0)

\* the default factory of self.buckets
NewBucket(m, t) == TokenBucket(m.burst_size, (m.requests_per_minute * TokenUnit) \div 60, t)

\* bucket = self.buckets[identifier]: get, or create and register
Lookup(m, id, t) ==
    IF m.buckets[id] # 0 THEN m
    ELSE [m EXCEPT !.objs = Append(@, NewBucket(m, t)),
                   !.buckets = [@ EXCEPT ![id] = Len(m.objs) + 1]]

Inactive_Full(b) == b.tokens >= b.capacity * TokenUnit

\* bucket.get_tokens() >= bucket.capacity * 0.95, the tokens already refilled
Inactive(b) == b.tokens * 100 >= b.capacity * TokenUnit * 95

\* _cleanup_old_buckets at time t
cleanup_old_buckets(m, t) ==
    LET reg == {m.buckets[i] : i \in Ids} \ {0}
        objs1 == [k \in 1..Len(m.objs) |->
                     IF k \in reg THEN get_tokens(m.objs[k], t).b ELSE m.objs[k]]
    IN  [m EXCEPT !.objs = objs1,
                  !.buckets = [i \in Ids |-> IF @[i] # 0 /\ Inactive(objs1[@[i]]) THEN 0 ELSE @[i]],
                  !.last_cleanup = t]

\* a request slot: pc is the await the coroutine is suspended at; id and bucket
\* are its locals `identifier` and `bucket` (an index in objs), unset on a
\* health-check path; entry is its record in mlog
NoReq == [pc |-> "idle", path |-> None, id |-> None, bucket |-> 0, entry |-> 0]

\* the record of a request in mlog; the response fields are filled when
\* dispatch returns or raises
Handled(path, id, t) ==
    [path |-> path, id |-> id, t |-> t, admitted |-> FALSE, created |-> FALSE,
     cleaned |-> FALSE, bucket |-> 0, left |-> 0, nexts |-> 0, done |-> FALSE, raised |-> FALSE,
     status |-> 0, limit |-> None, remaining |-> None, retry_after |-> None]

Digits == <<"0", "1", "2", "3", "4", "5", "6", "7", "8", "9">>

\* str(n) of an int n >= 0
RECURSIVE Str(_)
Str(n) == IF n < 10 THEN Digits[n + 1] ELSE Str(n \div 10) \o Digits[(n % 10) + 1]

Floor_Nearest(units) == (units + 1) \div TokenUnit

\* int(x) of a token count x >= 0 (a float counted in units)
Floor(units) == units \div TokenUnit

InitMw ==
    /\ CacheQuiet
    /\ bucket = NoBucket
    /\ bth = [t \in Threads |-> Out]
    /\ acct = <<>>
    /\ \E b \in BurstSizes, rpm \in Rpms : mw = Middleware(b, rpm, 0)
    /\ reqs = [r \in Reqs |-> NoReq]
    /\ mlog = <<>>
    /\ ipl = [max_requests |-> 0]
    /\ iplog = <<>>
    /\ pred = <<>>
    /\ rt = <<>>
    /\ fc = <<>>
    /\ fth = <<>>

MwFrame == UNCHANGED <<lruRest, memo, conc, bucket, bth, acct, window, wrappers>>

\* the clock: a second passes, or a whole cleanup interval
TickMw ==
    /\ \/ (now % cleanup_interval < MaxSecs /\ now' = now + 1)
       \/ (now \div cleanup_interval < MaxIntervals /\ now' = now + cleanup_interval)
    /\ UNCHANGED <<mw, reqs, mlog>>
    /\ MwFrame

\* l.114-141  dispatch from its start to its return of 429 or to its await of call_next
Arrive(r, path, id) ==
    /\ reqs[r].pc = "idle"
    /\ Len(mlog) < MaxReqs
    /\ UNCHANGED now
    /\ MwFrame
    /\ IF path \in HealthPaths
       THEN /\ reqs' = [reqs EXCEPT ![r] = [NoReq EXCEPT !.pc = "next_health", !.path = path,
                                                          !.entry = Len(mlog) + 1]]
            /\ mlog' = Append(mlog, [Handled(path, None, now) EXCEPT !.nexts = 1])
            /\ UNCHANGED mw
       ELSE LET m1 == Lookup(mw, id, now)
                k == m1.buckets[id]
                c == consume(m1.objs[k], 1, now)
                m2 == [m1 EXCEPT !.objs[k] = c.b]
                due == now - m2.last_cleanup > cleanup_interval
                e == [Handled(path, id, now) EXCEPT !.bucket = k, !.created = (mw.buckets[id] = 0),
                                                    !.left = c.b.tokens]
            IN  IF ~c.ret
                THEN /\ mw' = m2
                     /\ mlog' = Append(mlog, [e EXCEPT !.done = TRUE, !.status = 429,
                                                       !.retry_after = "60"])
                     /\ UNCHANGED reqs
                ELSE /\ mw' = IF due THEN cleanup_old_buckets(m2, now) ELSE m2
                     /\ mlog' = Append(mlog, [e EXCEPT !.admitted = TRUE, !.cleaned = due,
                                                       !.nexts = 1])
                     /\ reqs' = [reqs EXCEPT ![r] = [NoReq EXCEPT !.pc = "next", !.path = path,
                                      !.id = id, !.bucket = k, !.entry = Len(mlog) + 1]]

\* l.115, l.141-147  call_next returns a response: dispatch returns it, with the
\* rate limit headers unless the path is a health check
NextReturns(r, status) ==
    /\ reqs[r].pc \in {"next", "next_health"}
    /\ UNCHANGED now
    /\ MwFrame
    /\ reqs' = [reqs EXCEPT ![r] = NoReq]
    /\ IF reqs[r].pc = "next_health"
       THEN /\ mlog' = [mlog EXCEPT ![reqs[r].entry] = [@ EXCEPT !.done = TRUE, !.status = status]]
            /\ UNCHANGED mw
       ELSE LET k == reqs[r].bucket
                g == get_tokens(mw.objs[k], now)
            IN  /\ mw' = [mw EXCEPT !.objs[k] = g.b]
                /\ mlog' = [mlog EXCEPT ![reqs[r].entry] =
                                [@ EXCEPT !.done = TRUE, !.status = status,
                                          !.limit = Str(mw.objs[k].capacity),
                                          !.remaining = Str(Floor(g.ret))]]

\* l.115, l.141  call_next raises: the exception leaves dispatch
NextRaises(r) ==
    /\ reqs[r].pc \in {"next", "next_health"}
    /\ UNCHANGED <<now, mw>>
    /\ MwFrame
    /\ reqs' = [reqs EXCEPT ![r] = NoReq]
    /\ mlog' = [mlog EXCEPT ![reqs[r].entry] = [@ EXCEPT !.done = TRUE, !.raised = TRUE]]

NextMw ==
    \/ TickMw
    \/ \E r \in Reqs, path \in Paths, id \in Ids : Arrive(r, path, id)
    \/ \E r \in Reqs, status \in Statuses : NextReturns(r, status)
    \/ \E r \in Reqs : NextRaises(r)

SpecMw == InitMw /\ [][NextMw]_vars

(* ---- IPRateLimiter (src/middleware.py) ---- *)
MaxRequests == {1, 2}
Windows == {1, 2}

\* IPRateLimiter.__init__: requests maps an identifier to its list of timestamps
\* (a defaultdict(list): an identifier never seen has the empty list)
IPRateLimiter(max_requests, window_seconds) ==
    [max_requests |-> max_requests, window_seconds |-> window_seconds,
     requests |-> [i \in Ids |-> <<>>]]

Recent_Never(requests, window_start) == requests

\* [req_time for req_time in requests if req_time > window_start]
Recent(requests, window_start) == SelectSeq(requests, LAMBDA req_time : req_time > window_start)

\* the body of is_allowed's `with self.lock:` block at time t
is_allowed(L, identifier, t) ==
    LET window_start == t - L.window_seconds
        requests == Recent(L.requests[identifier], window_start)
    IN  IF Len(requests) < L.max_requests
        THEN [L |-> [L EXCEPT !.requests[identifier] = Append(requests, t)], ret |-> TRUE]
        ELSE [L |-> [L EXCEPT !.requests[identifier] = requests], ret |-> FALSE]

Max(x, y) == IF x >= y THEN x ELSE y

\* the body of get_remaining's `with self.lock:` block at time t
get_remaining(L, identifier, t) ==
    LET window_start == t - L.window_seconds
        requests == Recent(L.requests[identifier], window_start)
    IN  [L |-> [L EXCEPT !.requests[identifier] = requests],
         ret |-> Max(0, L.max_requests - Len(requests))]

InitIp ==
    /\ CacheQuiet
    /\ bucket = NoBucket
    /\ bth = [t \in Threads |-> Out]
    /\ acct = <<>>
    /\ mw = [burst_size |-> 0]
    /\ reqs = <<>>
    /\ mlog = <<>>
    /\ \E m \in MaxRequests, w \in Windows : ipl = IPRateLimiter(m, w)
    /\ iplog = <<>>
    /\ pred = <<>>
    /\ rt = <<>>
    /\ fc = <<>>
    /\ fth = <<>>

IpFrame == UNCHANGED <<lruRest, memo, conc, bucket, bth, acct, ratelimit, wrappers>>

TickIp ==
    /\ now < MaxIpTime
    /\ now' = now + 1
    /\ UNCHANGED <<ipl, iplog>>
    /\ IpFrame

IsAllowed(id) ==
    /\ Len(iplog) < MaxIpCalls
    /\ LET r == is_allowed(ipl, id, now) IN
       /\ ipl' = r.L
       /\ iplog' = Append(iplog, [op |-> "is_allowed", id |-> id, t |-> now, ok |-> r.ret,
                                  ret |-> 0])
    /\ UNCHANGED now
    /\ IpFrame

GetRemaining(id) ==
    /\ Len(iplog) < MaxIpCalls
    /\ LET r == get_remaining(ipl, id, now) IN
       /\ ipl' = r.L
       /\ iplog' = Append(iplog, [op |-> "get_remaining", id |-> id, t |-> now, ok |-> FALSE,
                                  ret |-> r.ret])
    /\ UNCHANGED now
    /\ IpFrame

NextIp ==
    \/ TickIp
    \/ \E id \in Ids : IsAllowed(id)
    \/ \E id \in Ids : GetRemaining(id)

SpecIp == InitIp /\ [][NextIp]_vars

(* ---- PredictionCache (src/caching.py) ---- *)
SecondsPerHour == 3600
TtlHours == {1}
Games == {<<"A_B", "C", "d">>, <<"A", "B_C", "d">>, <<"A", "C", "d">>}
Predictions == {"p", "q"}

\* PredictionCache._generate_key
generate_key(home_team, away_team, game_date) ==
    Md5(home_team \o "_" \o away_team \o "_" \o game_date)

GameKey(g) == generate_key(g[1], g[2], g[3])

\* what the caller of the PredictionCache did last, and for each game the
\* prediction set for it and not invalidated since, with the time it was set
\* (value None: t is the time of the invalidation, -1 when there was no call)
NoPred == [op |-> "init", game |-> <<None, None, None>>,
           set |-> [g \in Games |-> [value |-> None, t |-> -1]]]

\* PredictionCache.__init__: no game is evicted with max_size entries
InitPred ==
    /\ wr = [w \in Callers |-> Idle]
    /\ lock = None
    /\ th = [t \in Threads |-> Free]
    /\ failed = {}
    /\ now = 0
    /\ max_size = Cardinality(Games)
    /\ \E ttl_hours \in TtlHours : default_ttl = ttl_hours * SecondsPerHour
    /\ cache = <<>>
    /\ hits = 0
    /\ misses = 0
    /\ last = Call("init", None, St)
    /\ recency = <<>>
    /\ gH = 0
    /\ gM = 0
    /\ bucket = NoBucket
    /\ bth = [t \in Threads |-> Out]
    /\ acct = <<>>
    /\ mw = [burst_size |-> 0]
    /\ reqs = <<>>
    /\ mlog = <<>>
    /\ ipl = [max_requests |-> 0]
    /\ iplog = <<>>
    /\ pred = NoPred
    /\ rt = <<>>
    /\ fc = <<>>
    /\ fth = <<>>

PredFrame == UNCHANGED <<memo, conc, bucket, bth, acct, ratelimit, window, rt, fc, fth>>

TickHour ==
    /\ now < MaxHours * SecondsPerHour
    /\ now' = now + SecondsPerHour
    /\ last' = Call("tick", None, St)
    /\ pred' = [pred EXCEPT !.op = "tick"]
    /\ UNCHANGED <<max_size, default_ttl, cache, hits, misses, recency, gH, gM>>
    /\ PredFrame

GetPrediction(g) ==
    /\ hits + misses < MaxPredGets
    /\ GetStep(GameKey(g))
    /\ pred' = [pred EXCEPT !.op = "get_prediction", !.game = g]
    /\ PredFrame

SetPrediction(g, prediction) ==
    /\ SetStep(GameKey(g), prediction, NoTtl)
    /\ pred' = [pred EXCEPT !.op = "set_prediction", !.game = g,
                            !.set[g] = [value |-> prediction, t |-> now]]
    /\ PredFrame

InvalidatePrediction(g) ==
    /\ DeleteStep(GameKey(g))
    /\ pred' = [pred EXCEPT !.op = "invalidate_prediction", !.game = g,
                            !.set[g] = [value |-> None, t |-> now]]
    /\ PredFrame

NextPred ==
    \/ TickHour
    \/ \E g \in Games : GetPrediction(g)
    \/ \E g \in Games, p \in Predictions : SetPrediction(g, p)
    \/ \E g \in Games : InvalidatePrediction(g)

SpecPred == InitPred /\ [][NextPred]_vars

(* ---- retry_with_backoff (src/api_utils.py) ---- *)

\* RetryConfig.__init__: the default retry_on_status
RetryOnStatus == {408, 429, 500, 502, 503, 504}
BackoffFactors == {2}
MaxBackoffs == {1, 60}

RetryConfig(max_retries, backoff_factor, max_backoff) ==
    [max_retries |-> max_retries, backoff_factor |-> backoff_factor,
     max_backoff |-> max_backoff, retry_on_status |-> RetryOnStatus]

\* what an invocation of the wrapped function returns: a plain value, which
\* has no status_code attribute (NoStatus), or a Response with a status_code
NoStatus == 0
NoResult == [value |-> None, status_code |-> NoStatus]
Results == {[value |-> "success", status_code |-> NoStatus],
            [value |-> "response", status_code |-> 200],
            [value |-> "response", status_code |-> 503]}

\* what an invocation raises: an Exception, or a BaseException that
\* `except Exception` does not catch
NoException == [type |-> None, msg |-> None]
Exceptions == {[type |-> "Exception", msg |-> "Temporary failure"],
               [type |-> "Exception", msg |-> "Persistent failure"],
               [type |-> "KeyboardInterrupt", msg |-> ""]}

Outcomes ==
    {[raised |-> FALSE, result |-> r, exc |-> NoException] : r \in Results}
    \cup {[raised |-> TRUE, result |-> NoResult, exc |-> e] : e \in Exceptions}

\* hasattr(result, 'status_code') and result.status_code in config.retry_on_status
RetryStatus(config, result) ==
    result.status_code # NoStatus /\ result.status_code \in config.retry_on_status

\* Exception(f"HTTP {result.status_code}")
HttpError(result) == [type |-> "Exception", msg |-> "HTTP " \o Str(result.status_code)]

\* except Exception as e
Caught(e) == e.type = "Exception"

\* backoff_factor ** attempt
RECURSIVE Pow(_, _)
Pow(x, n) == IF n = 0 THEN 1 ELSE x * Pow(x, n - 1)

\* min(config.backoff_factor ** attempt, config.max_backoff)
backoff(config, attempt) == Min(Pow(config.backoff_factor, attempt), config.max_backoff)

\* if attempt < config.max_retries
MoreAttempts_OneMore(config, attempt) == attempt <= config.max_retries
MoreAttempts(config, attempt) == attempt < config.max_retries

\* one call of wrapper(): pc is the statement it stands at ("call": l.59,
\* "sleep": l.82, "raise": l.86) or how it ended ("returned", "raised")
InitRetry ==
    /\ CacheQuiet
    /\ bucket = NoBucket
    /\ bth = [t \in Threads |-> Out]
    /\ acct = <<>>
    /\ mw = [burst_size |-> 0]
    /\ reqs = <<>>
    /\ mlog = <<>>
    /\ ipl = [max_requests |-> 0]
    /\ iplog = <<>>
    /\ pred = <<>>
    /\ fc = <<>>
    /\ fth = <<>>
    /\ \E m \in 0..MaxRetries, f \in BackoffFactors, b \in MaxBackoffs :
         rt = [config |-> RetryConfig(m, f, b), pc |-> "call", attempt |-> 0,
               last_exception |-> NoException, invocations |-> <<>>, slept |-> <<>>,
               result |-> NoResult, exc |-> NoException]

RetryFrame == UNCHANGED <<lruRest, memo, conc, bucket, bth, acct, ratelimit, window, pred, fc, fth>>

\* l.67-84: the handler, entered with the exception e
Handle(r, e) ==
    [r EXCEPT !.last_exception = e,
              !.pc = IF MoreAttempts(r.config, r.attempt) THEN "sleep" ELSE "raise"]

\* l.59-84: the wrapped function is invoked and returns or raises
Invoke(o) ==
    /\ rt.pc = "call"
    /\ LET called == [rt EXCEPT !.invocations = Append(rt.invocations, o)]
       IN  rt' = IF o.raised
                 THEN IF Caught(o.exc) THEN Handle(called, o.exc)
                      ELSE [called EXCEPT !.pc = "raised", !.exc = o.exc]
                 ELSE IF RetryStatus(called.config, o.result)
                      THEN Handle(called, HttpError(o.result))
                      ELSE [called EXCEPT !.pc = "returned", !.result = o.result]
    /\ UNCHANGED now
    /\ RetryFrame

\* l.82 and l.57: time.sleep(backoff), then the next attempt
Sleep ==
    /\ rt.pc = "sleep"
    /\ LET b == backoff(rt.config, rt.attempt)
       IN  /\ now' = now + b
           /\ rt' = [rt EXCEPT !.slept = Append(rt.slept, b),
                               !.attempt = rt.attempt + 1,
                               !.pc = "call"]
    /\ RetryFrame

\* l.86: raise last_exception
RaiseLast ==
    /\ rt.pc = "raise"
    /\ rt' = [rt EXCEPT !.pc = "raised", !.exc = rt.last_exception]
    /\ UNCHANGED now
    /\ RetryFrame

NextRetry ==
    \/ \E o \in Outcomes : Invoke(o)
    \/ Sleep
    \/ RaiseLast

\* the wrapper is sequential code whose every statement completes (the
\* wrapped function returns or raises, time.sleep returns)
SpecRetry == InitRetry /\ [][NextRetry]_vars /\ WF_vars(NextRetry)

(* ---- FilesystemCache (src/caching.py) ---- *)
(* One key, i.e. one file; the threads take a step at each call of the      *)
(* filesystem (exists, stat, unlink, open and load, open "wb", dump), and a *)
(* call of the filesystem may fail with an OSError.                          *)
FsTtls == {1}
FsValues == {"v", "w"}
FsOps == {"get", "set", "delete"}

\* the content open(path, "wb") leaves until pickle.dump has written: loading
\* it raises EOFError
Truncated == "truncated"

NoFile == [exists |-> FALSE, data |-> None, mtime |-> 0]

\* FilesystemCache.__init__; faults counts the filesystem calls that failed
FilesystemCache(ttl) == [ttl |-> ttl, file |-> NoFile, faults |-> 0]

\* a thread: pc is the statement it stands at in op(key, value); ret and
\* raised tell how its last call ended; before (the file when the call
\* began), alone (no other thread was inside a method during the call) and
\* faulty (a filesystem call of this call failed) are kept for the claims
Away == [pc |-> "idle", op |-> None, value |-> None, ret |-> None, raised |-> FALSE,
         alone |-> FALSE, faulty |-> FALSE, before |-> NoFile]

\* the outcomes of a call of the filesystem: it works, or fails with an OSError;
\* Path.exists() turns some OSErrors into False ("ignored") and raises the others
IOs == {"ok", "error"}
ExistsIOs == {"ok", "ignored", "error"}

Fault(io) == io # "ok"

InitFs ==
    /\ CacheQuiet
    /\ bucket = NoBucket
    /\ bth = [t \in Threads |-> Out]
    /\ acct = <<>>
    /\ mw = [burst_size |-> 0]
    /\ reqs = <<>>
    /\ mlog = <<>>
    /\ ipl = [max_requests |-> 0]
    /\ iplog = <<>>
    /\ pred = <<>>
    /\ rt = <<>>
    /\ \E ttl \in FsTtls : fc = FilesystemCache(ttl)
    /\ fth = [t \in Threads |-> Away]

FsFrame == UNCHANGED <<lruRest, memo, conc, bucket, bth, acct, ratelimit, window, pred, rt>>

TickFs ==
    /\ now < MaxFsTime
    /\ \A t \in Threads : fth[t].pc = "idle"
    /\ now' = now + 1
    /\ UNCHANGED <<fc, fth>>
    /\ FsFrame

\* thread t stands at pc0; the call of the filesystem it makes there may fail
\* while fewer than MaxFaults have
FsAt(t, pc0, io) ==
    /\ fth[t].pc = pc0
    /\ Fault(io) => fc.faults < MaxFaults
    /\ UNCHANGED now
    /\ FsFrame

\* the file after the step, and the thread going on to pc1
FsGoto(t, pc1, file1, io) ==
    /\ fc' = [fc EXCEPT !.file = file1, !.faults = IF Fault(io) THEN @ + 1 ELSE @]
    /\ fth' = [fth EXCEPT ![t] = [@ EXCEPT !.pc = pc1, !.faulty = @ \/ Fault(io)]]

\* the file after the step, and the thread leaving the method
FsEnd(t, ret, raised, file1, io) ==
    /\ fc' = [fc EXCEPT !.file = file1, !.faults = IF Fault(io) THEN @ + 1 ELSE @]
    /\ fth' = [fth EXCEPT ![t] = [Away EXCEPT !.ret = ret, !.raised = raised]]

\* l.232-234, l.254-256, l.264-266: a thread calls a method; path = self._get_path(key)
FsCall(t, op, v) ==
    /\ fth[t].pc = "idle"
    /\ fth' = [u \in Threads |->
                 IF u = t
                 THEN [Away EXCEPT !.pc = CASE op = "get" -> "get_236"
                                           [] op = "set" -> "set_259"
                                           [] OTHER -> "delete_266",
                                   !.op = op,
                                   !.value = IF op = "set" THEN v ELSE None,
                                   !.alone = (\A w \in Threads : fth[w].pc = "idle"),
                                   !.before = fc.file]
                 ELSE IF fth[u].pc = "idle" THEN fth[u] ELSE [fth[u] EXCEPT !.alone = FALSE]]
    /\ UNCHANGED <<now, fc>>
    /\ FsFrame

\* l.236-237  if not path.exists(): return None      (outside the try)
Get236(t, io) ==
    /\ FsAt(t, "get_236", io)
    /\ IF io = "error" THEN FsEnd(t, None, TRUE, fc.file, io)
       ELSE IF io = "ignored" \/ ~fc.file.exists THEN FsEnd(t, None, FALSE, fc.file, io)
       ELSE FsGoto(t, "get_241", fc.file, io)

\* l.241-242  file_age = now - path.stat().st_mtime; if file_age > self.ttl
Get241(t, io) ==
    /\ FsAt(t, "get_241", io)
    /\ IF Fault(io) \/ ~fc.file.exists THEN FsEnd(t, None, FALSE, fc.file, io)
       ELSE IF now - fc.file.mtime > fc.ttl THEN FsGoto(t, "get_243", fc.file, io)
       ELSE FsGoto(t, "get_247", fc.file, io)

\* l.243-244  path.unlink(); return None
Get243(t, io) ==
    /\ FsAt(t, "get_243", io)
    /\ IF Fault(io) \/ ~fc.file.exists THEN FsEnd(t, None, FALSE, fc.file, io)
       ELSE FsEnd(t, None, FALSE, NoFile, io)

\* l.247-252  with open(path, "rb") as f: return pickle.load(f)
Get247(t, io) ==
    /\ FsAt(t, "get_247", io)
    /\ IF Fault(io) \/ ~fc.file.exists \/ fc.file.data = Truncated
       THEN FsEnd(t, None, FALSE, fc.file, io)
       ELSE FsEnd(t, fc.file.data, FALSE, fc.file, io)

\* l.259  open(path, "wb"): the file is created or truncated
Set259(t, io) ==
    /\ FsAt(t, "set_259", io)
    /\ IF Fault(io) THEN FsEnd(t, None, FALSE, fc.file, io)
       ELSE FsGoto(t, "set_260", [exists |-> TRUE, data |-> Truncated, mtime |-> now], io)

\* l.260-262  pickle.dump(value, f) and the close of the file; the file another
\* thread has unlinked meanwhile stays away
Set260(t, io) ==
    /\ FsAt(t, "set_260", io)
    /\ IF Fault(io) \/ ~fc.file.exists THEN FsEnd(t, None, FALSE, fc.file, io)
       ELSE FsEnd(t, None, FALSE, [exists |-> TRUE, data |-> fth[t].value, mtime |-> now], io)

\* l.266-267  if path.exists():
Delete266(t) ==
    /\ FsAt(t, "delete_266", "ok")
    /\ IF ~fc.file.exists THEN FsEnd(t, None, FALSE, fc.file, "ok")
       ELSE FsGoto(t, "delete_267", fc.file, "ok")

\* l.267  path.unlink(), which raises FileNotFoundError when the file is gone
Delete267(t) ==
    /\ FsAt(t, "delete_267", "ok")
    /\ IF ~fc.file.exists THEN FsEnd(t, None, TRUE, fc.file, "ok")
       ELSE FsEnd(t, None, FALSE, NoFile, "ok")

NextFs ==
    \/ TickFs
    \/ \E t \in Threads, op \in FsOps, v \in FsValues : FsCall(t, op, v)
    \/ \E t \in Threads, io \in ExistsIOs : Get236(t, io)
    \/ \E t \in Threads, io \in IOs : Get241(t, io)
    \/ \E t \in Threads, io \in IOs : Get243(t, io)
    \/ \E t \in Threads, io \in IOs : Get247(t, io)
    \/ \E t \in Threads, io \in IOs : Set259(t, io)
    \/ \E t \in Threads, io \in IOs : Set260(t, io)
    \/ \E t \in Threads : Delete266(t)
    \/ \E t \in Threads : Delete267(t)

SpecFs == InitFs /\ [][NextFs]_vars

(* ======================= the claims ======================= *)
Without(c, k) == SelectSeq(c, LAMBDA e : e.key # k)

(* C1: after any sequence of completed get, set, delete, clear and
   cleanup_expired calls the cache stores at most max_size entries. *)
C1_SizeBound == Len(cache) <= max_size

C1_Witness ==
    /\ last.op = "set" /\ last.removed # {} /\ last.found = "absent"
    /\ max_size = 2 /\ Len(cache) = max_size

(* C2: set evicts only what capacity requires, and then the least recently
   touched key: a new key into a full cache removes exactly the key whose last
   set or successful get is the oldest; a new key into a cache that is not full
   and a key that is already stored remove no other key; the key set becomes
   the most recently used one, holding the new entry. *)
SetPost(c0, c1, rec, max, k, v) ==
    /\ Len(c1) >= 1
    /\ c1[Len(c1)].key = k /\ c1[Len(c1)].value = v /\ c1[Len(c1)].access_count = 0
    /\ IF \E i \in 1..Len(c0) : c0[i].key = k THEN SubSeq(c1, 1, Len(c1) - 1) = Without(c0, k)
       ELSE IF Len(c0) < max THEN SubSeq(c1, 1, Len(c1) - 1) = c0
       ELSE /\ Len(rec) >= 1
            /\ SubSeq(c1, 1, Len(c1) - 1) = Without(c0, Head(rec))
            /\ Len(c1) = Len(c0)

C2_SetEvictsLRU ==
    [][last'.op = "set" =>
          SetPost(cache, cache', recency, max_size, last'.key, last'.value)]_vars

\* set a, set b, get a, set c at capacity 2: b is evicted, a and c stay
C2_Witness ==
    /\ last.op = "set" /\ last.key = "c" /\ last.removed = {"b"} /\ max_size = 2
    /\ Len(cache) = 2 /\ cache[1].key = "a" /\ cache[1].access_count = 1
    /\ cache[2].key = "c"

(* C3: get of a key that is absent or whose entry is expired (now >=
   expires_at) returns None and adds one miss, and removes the expired entry;
   get of a key whose entry is not expired returns the stored value. *)
GetPost(c0, c1, h0, h1, m0, m1, k, ret, t) ==
    IF \A i \in 1..Len(c0) : c0[i].key # k
    THEN ret = None /\ m1 = m0 + 1 /\ h1 = h0 /\ c1 = c0
    ELSE IF \E i \in 1..Len(c0) : c0[i].key = k /\ t >= c0[i].expires_at
    THEN ret = None /\ m1 = m0 + 1 /\ h1 = h0 /\ c1 = Without(c0, k)
    ELSE \E i \in 1..Len(c0) : c0[i].key = k /\ ret = c0[i].value

C3_GetMissAndExpiry ==
    [][last'.op = "get" =>
          GetPost(cache, cache', hits, hits', misses, misses', last'.key, last'.ret, now)]_vars

\* a get at the very instant the entry expires, another entry staying
C3_Witness ==
    /\ last.op = "get" /\ last.found = "expired" /\ last.removed = {last.key}
    /\ last.ret = None /\ misses = 1 /\ Len(cache) = 1 /\ now = 1
    /\ cache[1].expires_at > now

(* C4: set(key, value, ttl) stores expires_at = now + ttl for every ttl that
   is passed, ttl = 0 included; default_ttl is used only when none is passed. *)
C4_TtlAsPassed ==
    [][last'.op = "set" =>
          \E i \in 1..Len(cache') :
              /\ cache'[i].key = last'.key
              /\ cache'[i].expires_at =
                     now + (IF last'.ttl = NoTtl THEN default_ttl ELSE last'.ttl)]_vars

(* C5: with several threads calling get, set, delete, clear and
   cleanup_expired on one cache, at most one thread is inside a method at a
   time, and each call, when it returns, has returned what the method as one
   atomic step returns on the cache the thread found when it took the lock,
   and has left the cache that step leaves: the calls take effect one after
   another in the order they took the lock.  A get(k) that is the next call
   after a set(k, v), issued before v's ttl has run out, returns v. *)
Inside(f) == {t \in Threads : f[t].pc # "idle"}

Returns(t) == th[t].pc # "idle" /\ th'[t].pc = "idle"

\* call c, which found c.before, ended in S1 with the record l
AsOneStep(c, S1, l) ==
    CASE c.op = "get" ->
            LET r == get(c.before, c.key, now) IN S1 = r.S /\ l.ret = r.ret
      [] c.op = "set" ->
            S1 = set(c.before, c.key, c.value, c.ttl, now, max_size, default_ttl)
            /\ l.ret = None
      [] c.op = "delete" ->
            LET r == delete(c.before, c.key) IN S1 = r.S /\ l.ok = r.ret /\ l.ret = None
      [] c.op = "clear" -> S1 = clear(c.before) /\ l.ret = None
      [] OTHER ->
            LET r == cleanup_expired(c.before, now) IN
            S1 = r.S /\ l.count = r.ret /\ l.ret = None

TtlGiven(l) == IF l.ttl = NoTtl THEN default_ttl ELSE l.ttl

C5_LockMakesAtomic ==
    [][/\ Cardinality(Inside(th')) <= 1
       /\ \A t \in Threads :
            Returns(t) =>
                /\ AsOneStep(th[t], [cache |-> cache', hits |-> hits', misses |-> misses'], last')
                /\ (th[t].op = "get" /\ last.op = "set" /\ last.key = th[t].key
                    /\ now < last.at + TtlGiven(last))
                   => last'.ret = last.value]_vars

\* thread t2 is about to return from a get that found the value thread t1's
\* set stored one tick of the clock before
C5_Witness ==
    /\ last.op = "set" /\ last.who = "t1" /\ last.at = 0 /\ now = 1
    /\ th["t2"].pc = "get_88" /\ th["t2"].key = last.key
    /\ th["t2"].entry.value = "v" /\ hits = 1

(* C6: delete returns TRUE iff the key was stored; afterwards the key is
   absent and every other entry, the order of the other keys and the hit and
   miss counters are as before; delete of a missing key changes nothing. *)
DeletePost(c0, c1, k, ret) ==
    /\ ret = (\E i \in 1..Len(c0) : c0[i].key = k)
    /\ c1 = Without(c0, k)
    /\ (~ret => c1 = c0)

C6_Delete ==
    [][last'.op = "delete" =>
          /\ DeletePost(cache, cache', last'.key, last'.ok)
          /\ hits' = hits /\ misses' = misses]_vars

C6_Witness ==
    /\ last.op = "delete" /\ last.ok = TRUE /\ last.removed = {last.key}
    /\ Len(cache) = 1 /\ hits = 1 /\ misses = 1

(* C7: clear leaves no entry and hits = misses = 0; stats right after it
   report size 0 and hit_rate 0 and every get would return None; a key gets
   into the cache again only by a set of that key. *)
C7_Clear ==
    [][/\ last'.op = "clear" =>
            /\ cache' = <<>> /\ hits' = 0 /\ misses' = 0
            /\ get_stats(St, max_size)'.size = 0
            /\ get_stats(St, max_size)'.hit_rate = 0
            /\ \A k \in Keys : get(St, k, now)'.ret = None
       /\ \A k \in Keys :
            (k \notin KeySet(cache) /\ k \in KeySet(cache)') =>
                (last'.op = "set" /\ last'.key = k)]_vars

C7_Witness ==
    /\ last.op = "clear" /\ Cardinality(last.removed) = 2
    /\ cache = <<>> /\ hits = 0 /\ misses = 0

(* C8: hits and misses count the gets since construction or the last clear
   that found a fresh entry, and those that found none or an expired one;
   get_stats reports them, the number of entries, and hit_rate =
   hits / (hits + misses) * 100 rounded to 2 decimals (here in hundredths), or
   0 when there was no get. *)
Abs(x) == IF x < 0 THEN 0 - x ELSE x

C8_Stats ==
    LET s == get_stats(St, max_size)
        T == gH + gM
    IN  /\ hits = gH /\ misses = gM
        /\ s.hits = gH /\ s.misses = gM /\ s.size = Len(cache)
        /\ (T = 0 => s.hit_rate = 0)
        /\ (T > 0 => 2 * Abs(s.hit_rate * T - 10000 * gH) <= T)
        /\ (last.op = "get_stats" => last.stats = s)

\* two hits and a miss: 66.67
C8_Witness ==
    /\ last.op = "get_stats" /\ last.stats.hits = 2 /\ last.stats.misses = 1
    /\ last.stats.hit_rate = 6667 /\ last.stats.size = 1

(* C9: a wrapper call whose key has a non-expired entry returns the stored
   result without invoking the function; on a miss it invokes the function
   once, stores the result under the key with the given ttl, or default_ttl
   when none is given, and returns it. *)
StoredUnder(c, k, v, exp) ==
    \E i \in 1..Len(c) : c[i].key = k /\ c[i].value = v /\ c[i].expires_at = exp

C9_Memoize ==
    [][/\ (last'.op = "get" /\ last'.who # None /\ last'.found = "fresh") =>
            /\ wr'[last'.who].pc = "idle"
            /\ \E i \in 1..Len(cache) : cache[i].key = last'.key /\ cache[i].value = last'.ret
       /\ (last'.op = "get" /\ last'.who # None /\ last'.found # "fresh") =>
            wr'[last'.who].pc = "call"
       /\ (last'.op = "func" /\ last'.ret # Raises) =>
            (wr'[last'.who].pc = "store" /\ wr'[last'.who].result = last'.ret)
       /\ (last'.op = "set" /\ last'.who # None) =>
            /\ wr'[last'.who].pc = "idle"
            /\ last'.value = wr[last'.who].result
            /\ StoredUnder(cache', last'.key, last'.value,
                   now + (IF last'.ttl = NoTtl THEN default_ttl ELSE last'.ttl))]_vars

(* C10, as stated: when the wrapped function raises, the exception reaches the
   caller and the cache is as before the call but for one more miss. *)
C10_Original ==
    [][(last'.op = "func" /\ last'.ret = Raises) =>
          /\ wr'[last'.who].pc = "idle"
          /\ Alone(last'.who) =>
                /\ cache' = wr[last'.who].before.cache
                /\ hits' = wr[last'.who].before.hits
                /\ misses' = wr[last'.who].before.misses + 1]_vars

(* C10, amended: when the wrapped function raises, the exception reaches the
   caller and the call has stored nothing: the cache differs from the one
   before the call only by the effect of the call's lookup (a miss, which
   removes an expired entry of the key; or, on an entry holding None, a hit
   that touches the entry), and, no other call through the decorator having
   overlapped the failing one, the next call with the same key invokes the
   function again. *)
LookupOnly(c0, c1, h0, h1, m0, m1, k, t) ==
    IF \A i \in 1..Len(c0) : c0[i].key # k THEN c1 = c0 /\ h1 = h0 /\ m1 = m0 + 1
    ELSE \/ /\ \E i \in 1..Len(c0) : c0[i].key = k /\ c0[i].expires_at <= t
            /\ c1 = Without(c0, k) /\ h1 = h0 /\ m1 = m0 + 1
         \/ /\ h1 = h0 + 1 /\ m1 = m0
            /\ Len(c1) = Len(c0)
            /\ SubSeq(c1, 1, Len(c1) - 1) = Without(c0, k)
            /\ c1[Len(c1)].key = k /\ c1[Len(c1)].value = None
            /\ \E i \in 1..Len(c0) :
                   /\ c0[i].key = k /\ c0[i].value = None
                   /\ c0[i].expires_at = c1[Len(c1)].expires_at
                   /\ c0[i].access_count + 1 = c1[Len(c1)].access_count

C10_NoCachedFailure ==
    [][/\ (last'.op = "func" /\ last'.ret = Raises) =>
            /\ wr'[last'.who].pc = "idle"
            /\ cache' = cache /\ hits' = hits /\ misses' = misses
            /\ Alone(last'.who) =>
                  LookupOnly(wr[last'.who].before.cache, cache',
                             wr[last'.who].before.hits, hits',
                             wr[last'.who].before.misses, misses', last'.key, now)
       /\ (last'.op = "get" /\ last'.who # None /\ last'.retry) =>
            wr'[last'.who].pc = "call"]_vars

\* the function raised on w1's first call and returned on its second
C10_Witness ==
    /\ last.op = "set" /\ last.who = "w1" /\ last.retry /\ last.value = "v"
    /\ wr["w2"].pc = "idle" /\ misses = 2 /\ hits = 0
    /\ Len(cache) = 1 /\ cache[1].key = last.key

(* C11: for a TokenBucket and a clock that never goes backwards, after any
   sequence of consume(n) and get_tokens() calls at any times the token count
   is at least 0 and at most capacity, and so is every count get_tokens
   returned. *)
C11_TokensInRange ==
    /\ 0 <= bucket.tokens
    /\ bucket.tokens <= bucket.capacity * TokenUnit
    /\ \A i \in 1..Len(acct) :
          /\ 0 <= acct[i].tokens /\ acct[i].tokens <= bucket.capacity * TokenUnit
          /\ 0 <= acct[i].ret /\ acct[i].ret <= bucket.capacity * TokenUnit

\* a consume emptied the bucket, and a later get_tokens found more time
\* elapsed than the bucket has room for and returned the capacity
C11_Witness ==
    \E i, j \in 1..Len(acct) :
        /\ j < i
        /\ acct[j].op = "consume" /\ acct[j].ok /\ acct[j].tokens = 0
        /\ acct[i].op = "get_tokens"
        /\ acct[i].found + (acct[i].t - acct[i].since) * bucket.refill_rate
               > bucket.capacity * TokenUnit
        /\ acct[i].ret = bucket.capacity * TokenUnit

(* C12: consume(n) first refills (tokens := min(capacity, tokens + elapsed
   seconds * refill_rate), last_refill := now), then returns TRUE and lowers
   the tokens by exactly n iff the refilled tokens are at least n; otherwise
   it returns FALSE and leaves the refilled tokens.  With threads inside the
   methods statement by statement, the lock lets one thread in at a time, each
   consume has this effect on the bucket it found when it took the lock, and
   the tokens granted in total never exceed the initial tokens plus the
   tokens that can have been refilled. *)
RECURSIVE Granted(_)
Granted(calls) ==
    IF calls = <<>> THEN 0
    ELSE (IF Head(calls).op = "consume" /\ Head(calls).ok THEN Head(calls).n ELSE 0)
         + Granted(Tail(calls))

C12_ConsumeUnderLock ==
    [][/\ Cardinality({t \in Threads : bth'[t].pc # "idle"}) <= 1
       /\ \A t \in Threads :
            (bth[t].pc # "idle" /\ bth'[t].pc = "idle" /\ bth[t].op = "consume") =>
                LET c == bth[t]
                    r == acct'[Len(acct')]
                    room == c.before.capacity * TokenUnit
                    sum == c.before.tokens + (c.now - c.before.last_refill) * c.before.refill_rate
                    refilled == IF sum > room THEN room ELSE sum
                IN  /\ r.who = t /\ r.n = c.n
                    /\ r.ok = (refilled >= c.n * TokenUnit)
                    /\ bucket'.tokens = IF r.ok THEN refilled - c.n * TokenUnit ELSE refilled
                    /\ bucket'.last_refill = c.now
                    /\ bucket'.lock = None
       /\ Granted(acct') * TokenUnit <= bucket.capacity * TokenUnit + bucket.refill_rate * now']_vars

\* thread t1 took the last token and thread t2 was refused in the same second;
\* one second later thread t2 was granted the token refilled meanwhile
C12_Witness ==
    /\ Len(acct) = 3
    /\ acct[1].op = "consume" /\ acct[1].who = "t1" /\ acct[1].ok /\ acct[1].tokens = 0
    /\ acct[2].op = "consume" /\ acct[2].who = "t2" /\ ~acct[2].ok /\ acct[2].t = acct[1].t
    /\ acct[3].op = "consume" /\ acct[3].who = "t2" /\ acct[3].ok /\ acct[3].t = 1

(* C13: a TokenBucket(capacity = c, refill_rate = r) starts full: of the
   consume(1) calls made before any time has passed the first c succeed and
   every later one fails; when at least c were made then, the first
   consume(1) after a wait t with 1 <= r * t < 2 succeeds and the one after it,
   made before r * t reaches 2, fails. *)
Consumes == SelectSeq(acct, LAMBDA r : r.op = "consume")

AtOnce == Cardinality({i \in 1..Len(Consumes) : Consumes[i].t = 0})

C13_BurstThenRefill ==
    (\A i \in 1..Len(Consumes) : Consumes[i].n = 1) =>
        /\ \A i \in 1..Len(Consumes) :
              Consumes[i].t = 0 => (Consumes[i].ok <=> i <= bucket.capacity)
        /\ (AtOnce >= bucket.capacity /\ Len(Consumes) > AtOnce
            /\ TokenUnit <= bucket.refill_rate * Consumes[AtOnce + 1].t
            /\ bucket.refill_rate * Consumes[AtOnce + 1].t < 2 * TokenUnit) =>
              /\ Consumes[AtOnce + 1].ok
              /\ (Len(Consumes) > AtOnce + 1
                  /\ bucket.refill_rate * Consumes[AtOnce + 2].t < 2 * TokenUnit) =>
                    ~Consumes[AtOnce + 2].ok

\* capacity 2, half a token per second: two consume(1) succeeded, the third
\* failed; three seconds later (1.5 tokens) one succeeded and the next failed
C13_Witness ==
    /\ bucket.capacity = 2 /\ bucket.refill_rate = 1
    /\ Len(acct) = 5 /\ Len(Consumes) = 5
    /\ \A i \in 1..5 : acct[i].n = 1
    /\ acct[1].ok /\ acct[2].ok /\ ~acct[3].ok /\ acct[3].t = 0
    /\ acct[4].t = 3 /\ acct[4].ok /\ acct[5].t = 3 /\ ~acct[5].ok

(* C14: when dispatch handles a request whose path is not a health-check
   path and the identifier's bucket, refilled, holds less than one token, it
   returns a response with status 429 and a Retry-After header without
   invoking next and without raising (and it admits the request otherwise);
   with burst_size = 2 the first two requests of an identifier are admitted
   and a third one in the same second is rejected this way. *)
\* the tokens the bucket of id holds in m at time t once refilled; a new
\* bucket is full
Available(m, id, t) ==
    IF m.buckets[id] = 0 THEN m.burst_size * TokenUnit
    ELSE LET b == m.objs[m.buckets[id]]
             sum == b.tokens + (t - b.last_refill) * b.refill_rate
         IN  IF sum > b.capacity * TokenUnit THEN b.capacity * TokenUnit ELSE sum

Of(id) == SelectSeq(mlog, LAMBDA e : e.id = id)

RejectedWith429(e) ==
    /\ ~e.admitted /\ e.done /\ e.status = 429 /\ e.retry_after = "60"
    /\ e.nexts = 0 /\ ~e.raised

C14_RejectsWith429 ==
    [][/\ Len(mlog') = Len(mlog) + 1 =>
            LET e == mlog'[Len(mlog')] IN
            e.path \notin HealthPaths =>
                /\ e.admitted <=> Available(mw, e.id, now) >= TokenUnit
                /\ ~e.admitted => (RejectedWith429(e) /\ reqs' = reqs)
       /\ mw.burst_size = 2 =>
            \A id \in Ids :
                /\ \A i \in 1..Len(Of(id)') : i <= 2 => Of(id)'[i].admitted
                /\ (Len(Of(id)') >= 3 /\ Of(id)'[3].t = Of(id)'[1].t) =>
                       RejectedWith429(Of(id)'[3])]_vars

\* burst_size 2: the same identifier came three times in one second and the
\* third request got 429
C14_Witness ==
    /\ mw.burst_size = 2 /\ Len(mlog) = 3
    /\ \A i \in 1..3 : mlog[i].id = "x" /\ mlog[i].path = "/api/predict" /\ mlog[i].t = 301
    /\ mlog[1].admitted /\ mlog[2].admitted
    /\ RejectedWith429(mlog[3]) /\ mlog[3].left = 0

(* C15: when the bucket grants the token, dispatch takes exactly one token
   from it, invokes next once and, when next has returned, returns its
   response with X-RateLimit-Limit set to the bucket's capacity (burst_size)
   and X-RateLimit-Remaining set to the floor of the token count the bucket
   holds then, an integer in 0..capacity. *)
\* the tokens of the TokenBucket b at time t once refilled
Refilled(b, t) ==
    LET sum == b.tokens + (t - b.last_refill) * b.refill_rate
    IN  IF sum > b.capacity * TokenUnit THEN b.capacity * TokenUnit ELSE sum

C15_AdmittedHeaders ==
    [][/\ Len(mlog') = Len(mlog) + 1 =>
            LET e == mlog'[Len(mlog')] IN
            e.admitted =>
                /\ e.nexts = 1 /\ ~e.done
                /\ mw'.objs[e.bucket].tokens = Available(mw, e.id, now) - TokenUnit
                /\ \E r \in Reqs : reqs[r].pc = "idle" /\ reqs'[r].pc = "next"
                                   /\ reqs'[r].bucket = e.bucket
       /\ \A r \in Reqs :
            (reqs[r].pc = "next" /\ reqs'[r].pc = "idle") =>
                LET e == mlog'[reqs[r].entry]
                    b == mw.objs[reqs[r].bucket]
                IN  /\ e.done /\ e.nexts = 1 /\ e.admitted
                    /\ ~e.raised =>
                          /\ e.status \in Statuses
                          /\ e.limit = Str(mw.burst_size) /\ b.capacity = mw.burst_size
                          /\ \E k \in 0..mw.burst_size :
                                /\ e.remaining = Str(k)
                                /\ k * TokenUnit <= Refilled(b, now)
                                /\ Refilled(b, now) < (k + 1) * TokenUnit]_vars

\* a request took a token at time 0 and got its response one second later,
\* the bucket holding 1.5 tokens: X-RateLimit-Remaining is 1
C15_Witness ==
    /\ mw.burst_size = 2 /\ Len(mlog) = 1
    /\ mlog[1].admitted /\ mlog[1].done /\ mlog[1].t = 0 /\ now = 1
    /\ mlog[1].status = 200 /\ mlog[1].limit = "2" /\ mlog[1].remaining = "1"
    /\ mw.objs[1].tokens = 3

(* C16: dispatch for the path /health or /api/health invokes next and returns
   its response whatever the buckets hold: the request is never answered
   with 429, gets no rate limit header, and neither of its two steps changes
   the bucket registry, the tokens of any bucket or last_cleanup. *)
IsHealth(path) == path = "/health" \/ path = "/api/health"

C16_HealthBypass ==
    [][/\ (Len(mlog') = Len(mlog) + 1 /\ IsHealth(mlog'[Len(mlog')].path)) =>
            LET e == mlog'[Len(mlog')] IN
            /\ mw' = mw
            /\ e.nexts = 1 /\ ~e.done /\ e.status # 429
            /\ \E r \in Reqs : reqs[r].pc = "idle" /\ reqs'[r].pc = "next_health"
                               /\ reqs'[r].entry = Len(mlog')
       /\ \A r \in Reqs :
            (reqs[r].pc # "idle" /\ reqs'[r].pc = "idle" /\ IsHealth(reqs[r].path)) =>
                LET e == mlog'[reqs[r].entry] IN
                /\ mw' = mw
                /\ IsHealth(e.path) /\ e.done /\ e.nexts = 1
                /\ e.raised \/ e.status \in Statuses
                /\ e.limit = None /\ e.remaining = None /\ e.retry_after = None]_vars

\* the only bucket is empty and its identifier was just rejected, yet a health
\* check was answered with next's response
C16_Witness ==
    /\ Len(mlog) = 3 /\ mw.burst_size = 2
    /\ mlog[1].admitted /\ mlog[2].admitted /\ mlog[1].id = mlog[2].id
    /\ mw.objs[mlog[2].bucket].tokens = 0 /\ mlog[2].t = now
    /\ mlog[3].path = "/api/health" /\ mlog[3].done /\ mlog[3].status = 200

(* C17: when requests of a previously unseen identifier are handled
   concurrently, one TokenBucket is created for the identifier and each of
   these requests consumes from it: a request that arrives while an earlier
   request of its identifier is still being handled finds that request's
   bucket, creates none, and leaves in it one token less per request. *)
C17_OneBucketPerIdentifier ==
    \A i, j \in 1..Len(mlog) :
        (i < j /\ mlog[i].id = mlog[j].id /\ mlog[i].id # None
         /\ mlog[i].created /\ mlog[i].admitted /\ ~mlog[i].done
         /\ \A k \in 1..Len(mlog) : k < i => mlog[k].id # mlog[i].id) =>
            /\ ~mlog[j].created
            /\ mlog[j].bucket = mlog[i].bucket
            /\ mlog[j].t = mlog[i].t => mlog[j].left < mlog[i].left

(* C18: is_allowed(id) at time t returns TRUE and records t iff fewer than
   max_requests recorded timestamps of id are later than t - window_seconds;
   otherwise it returns FALSE and records nothing; it leaves the lists of the
   other identifiers alone.  Hence no list holds more than max_requests
   timestamps, and for every identifier and every s at most max_requests
   calls are allowed at times in the window (s, s + window_seconds]. *)
Within(stamps, t, w) == {i \in 1..Len(stamps) : stamps[i] > t - w}

AllowedIn(log, id, s, w) ==
    {i \in 1..Len(log) : /\ log[i].op = "is_allowed" /\ log[i].ok /\ log[i].id = id
                         /\ s < log[i].t /\ log[i].t <= s + w}

C18_SlidingWindow ==
    [][/\ (Len(iplog') = Len(iplog) + 1 /\ iplog'[Len(iplog')].op = "is_allowed") =>
            LET c == iplog'[Len(iplog')]
                old == ipl.requests[c.id]
                kept == SelectSeq(old, LAMBDA x : x > now - ipl.window_seconds)
            IN  /\ c.t = now
                /\ c.ok <=> Cardinality(Within(old, now, ipl.window_seconds)) < ipl.max_requests
                /\ ipl'.requests[c.id] = IF c.ok THEN kept \o <<now>> ELSE kept
                /\ \A other \in Ids \ {c.id} : ipl'.requests[other] = ipl.requests[other]
       /\ \A id \in Ids :
            /\ Len(ipl'.requests[id]) <= ipl.max_requests
            /\ \A s \in (0 - ipl.window_seconds)..MaxIpTime :
                  Cardinality(AllowedIn(iplog', id, s, ipl.window_seconds)) <= ipl.max_requests]_vars

\* max_requests 1, window 2: x was allowed at 0, refused at 1 while y was
\* allowed, and allowed again at 2
C18_Witness ==
    /\ ipl.max_requests = 1 /\ ipl.window_seconds = 2 /\ Len(iplog) = 4
    /\ \A i \in 1..4 : iplog[i].op = "is_allowed"
    /\ iplog[1].id = "x" /\ iplog[1].t = 0 /\ iplog[1].ok
    /\ iplog[2].id = "x" /\ iplog[2].t = 1 /\ ~iplog[2].ok
    /\ iplog[3].id = "y" /\ iplog[3].t = 1 /\ iplog[3].ok
    /\ iplog[4].id = "x" /\ iplog[4].t = 2 /\ iplog[4].ok
    /\ ipl.requests["x"] = <<2>>

(* C19: keys depend only on (home_team, away_team, game_date): once
   set_prediction(h, a, d, p) was called, get_prediction(h, a, d) returns p
   while the ttl has not elapsed and the prediction was neither evicted nor
   invalidated (nor set again); invalidate_prediction(h, a, d) then returns
   TRUE, and until the next set_prediction(h, a, d, _) get_prediction(h, a, d)
   returns None and invalidate_prediction(h, a, d) returns FALSE. *)
Live(g) == pred.set[g].value # None /\ now < pred.set[g].t + default_ttl
Invalidated(g) == pred.set[g].value = None /\ pred.set[g].t >= 0

C19_PredictionRoundTrip ==
    [][/\ last'.key = GameKey(pred'.game) \/ pred'.op \in {"tick", "init"}
       /\ (pred'.op = "get_prediction" /\ Live(pred'.game)) => last'.ret = pred.set[pred'.game].value
       /\ (pred'.op = "get_prediction" /\ Invalidated(pred'.game)) => last'.ret = None
       /\ (pred'.op = "invalidate_prediction" /\ Live(pred'.game)) => last'.ok
       /\ (pred'.op = "invalidate_prediction" /\ Invalidated(pred'.game)) => ~last'.ok]_vars

\* an invocation the wrapper retries after: it raised an Exception, or it
\* returned a response whose status_code is in retry_on_status
Failed(config, o) ==
    \/ o.raised /\ Caught(o.exc)
    \/ ~o.raised /\ RetryStatus(config, o.result)

Failure(o) == IF o.raised THEN o.exc ELSE HttpError(o.result)

Ended == rt.pc \in {"returned", "raised"}

(* C20 as stated: the function is invoked at most max_retries + 1 times; when
   some invocation succeeded (returned instead of raising) the wrapper returns
   the result of the first such invocation and that invocation is the last
   one, and when every invocation raised the wrapper raises the exception of
   the last one. *)
C20_Original ==
    /\ Len(rt.invocations) <= rt.config.max_retries + 1
    /\ Ended =>
        LET inv == rt.invocations
            returned == {i \in 1..Len(inv) : ~inv[i].raised}
        IN  IF returned # {}
            THEN LET first == CHOOSE i \in returned : \A j \in returned : i <= j
                 IN  rt.pc = "returned" /\ rt.result = inv[first].result /\ Len(inv) = first
            ELSE rt.pc = "raised" /\ rt.exc = inv[Len(inv)].exc

(* C20: with max_retries = m >= 0 the function is invoked at most m + 1 times
   and the call ends.  An invocation fails when it raises an Exception or
   returns a response whose status_code is in retry_on_status (which counts as
   Exception("HTTP <status_code>")).  The function is invoked again only after
   a failed invocation, the i-th time after a sleep of
   min(backoff_factor ** (i - 1), max_backoff) seconds.  The wrapper returns
   the result of the first invocation that neither fails nor raises, raises
   the exception of the last failure when all m + 1 invocations failed, and
   lets an exception that is not an Exception through at once. *)
C20_RetryBounded ==
    /\ [](LET inv == rt.invocations
              n == Len(inv)
          IN  /\ n <= rt.config.max_retries + 1
              /\ \A i \in 1..(n - 1) : Failed(rt.config, inv[i])
              /\ Len(rt.slept) = (IF rt.pc = "call" THEN n ELSE Max(n - 1, 0))
              /\ \A i \in 1..Len(rt.slept) : rt.slept[i] = backoff(rt.config, i - 1)
              /\ rt.pc = "returned" =>
                    /\ ~inv[n].raised /\ ~Failed(rt.config, inv[n])
                    /\ rt.result = inv[n].result
              /\ rt.pc = "raised" =>
                    \/ inv[n].raised /\ ~Caught(inv[n].exc) /\ rt.exc = inv[n].exc
                    \/ /\ Failed(rt.config, inv[n])
                       /\ n = rt.config.max_retries + 1
                       /\ rt.exc = Failure(inv[n]))
    /\ <>Ended

\* with max_retries = 2 the first invocation raised, the second returned a 503
\* response and the third succeeded: three invocations, sleeps of 1 s and 2 s
C20_Witness ==
    /\ rt.pc = "returned" /\ rt.config.max_retries = 2 /\ rt.config.max_backoff = 60
    /\ Len(rt.invocations) = 3
    /\ rt.invocations[1].raised /\ rt.invocations[1].exc.msg = "Temporary failure"
    /\ rt.invocations[2].result.status_code = 503
    /\ rt.result.value = "success"
    /\ rt.slept = <<1, 2>>

(* C21: get(key) on a stored entry that is not expired returns its value, adds
   one hit (and no miss), adds one to the entry's access_count, sets its
   last_accessed to the time of the call and makes the key the most recently
   used one; the entries stored and the order of the other keys stay as they
   were. *)
C21_GetHit ==
    [][(last'.op = "get" /\ last'.found = "fresh") =>
          \E i \in 1..Len(cache) :
              /\ cache[i].key = last'.key
              /\ last'.ret = cache[i].value
              /\ hits' = hits + 1 /\ misses' = misses
              /\ Len(cache') = Len(cache)
              /\ cache'[Len(cache')] =
                     [cache[i] EXCEPT !.access_count = cache[i].access_count + 1,
                                      !.last_accessed = now]
              /\ SubSeq(cache', 1, Len(cache') - 1) = Without(cache, last'.key)]_vars

\* the older of two entries was read one tick after it was set: it moved
\* behind the entry set in between
C21_Witness ==
    /\ last.op = "get" /\ last.found = "fresh" /\ Len(cache) = 2
    /\ cache[2].key = last.key /\ cache[2].access_count = 1
    /\ cache[2].created_at = 0 /\ cache[2].last_accessed = 1
    /\ cache[1].created_at = 1 /\ cache[1].access_count = 0

(* C22: expires_at (and created_at, value) of a stored entry never change, a
   successful get included; an entry is returned by get only while it is
   stored and now < expires_at, an expired one is removed by the get that
   finds it, and every entry in the cache after a step is an entry stored
   before the step or the one a set of its key has just created, with
   access_count 0 and created_at = now <= expires_at: what was removed comes
   back only as a new entry. *)
C22_EntryLifecycle ==
    [][/\ now' >= now
       /\ \A i \in 1..Len(cache') :
            LET e == cache'[i] IN
            \/ /\ ~(last'.op = "set" /\ last'.key = e.key)
               /\ \E j \in 1..Len(cache) :
                     /\ cache[j].key = e.key /\ cache[j].value = e.value
                     /\ cache[j].created_at = e.created_at
                     /\ cache[j].expires_at = e.expires_at
                     /\ cache[j].access_count <= e.access_count
            \/ /\ last'.op = "set" /\ last'.key = e.key /\ last'.value = e.value
               /\ e.access_count = 0 /\ e.created_at = now /\ e.last_accessed = now
               /\ e.expires_at >= now
       /\ last'.op = "get" =>
            IF \E j \in 1..Len(cache) : cache[j].key = last'.key /\ now < cache[j].expires_at
            THEN \E j \in 1..Len(cache) : cache[j].key = last'.key /\ cache[j].value = last'.ret
            ELSE /\ last'.ret = None
                 /\ \A j \in 1..Len(cache') : cache'[j].key # last'.key]_vars

\* an entry that was read once has expired all the same and the get that
\* found it expired removed it; the other entry stays
C22_Witness ==
    /\ last.op = "get" /\ last.found = "expired" /\ last.removed = {last.key}
    /\ hits = 1 /\ misses = 1 /\ max_size = 2
    /\ Len(cache) = 1 /\ cache[1].access_count = 0 /\ cache[1].created_at = 0

(* C23: cleanup_expired() removes exactly the entries with now >= expires_at
   and returns how many they were; the other entries, their order and the hit
   and miss counters are as before, and right after the call no stored entry
   is expired. *)
C23_CleanupExpired ==
    [][last'.op = "cleanup_expired" =>
          /\ cache' = SelectSeq(cache, LAMBDA e : now < e.expires_at)
          /\ last'.count = Len(cache) - Len(cache')
          /\ last'.count = Cardinality({i \in 1..Len(cache) : now >= cache[i].expires_at})
          /\ hits' = hits /\ misses' = misses
          /\ \A i \in 1..Len(cache') : now' < cache'[i].expires_at]_vars

\* of two entries the expired one was swept; the other one, read once, stays
C23_Witness ==
    /\ last.op = "cleanup_expired" /\ last.count = 1 /\ Cardinality(last.removed) = 1
    /\ Len(cache) = 1 /\ cache[1].expires_at > now /\ cache[1].access_count = 1
    /\ hits = 1 /\ misses = 0

(* C24: get_tokens() returns min(capacity, tokens + elapsed seconds *
   refill_rate), tokens and elapsed taken from the last checkpoint, and
   consumes nothing: the bucket it leaves gives, at the time of the call and
   at every later time, the same token count (and so the same result of every
   consume and get_tokens) as the bucket it found. *)
Level(b, t) ==
    LET sum == b.tokens + (t - b.last_refill) * b.refill_rate
        room == b.capacity * TokenUnit
    IN  IF sum > room THEN room ELSE sum

C24_GetTokensObserves ==
    [][(Len(acct') = Len(acct) + 1 /\ acct'[Len(acct')].op = "get_tokens") =>
          /\ acct'[Len(acct')].ret = Level(bucket, now)
          /\ bucket'.capacity = bucket.capacity
          /\ bucket'.refill_rate = bucket.refill_rate
          /\ \A d \in 0..MaxBucketTime :
                Level(bucket', now + d) = Level(bucket, now + d)]_vars

\* a get_tokens saw a partly refilled bucket (more than the last consume
\* left, less than the capacity) and a consume one second later, which would
\* have failed at the time of the get_tokens, succeeded
C24_Witness ==
    \E i \in 1..Len(acct) :
        /\ i + 1 <= Len(acct)
        /\ acct[i].op = "get_tokens"
        /\ acct[i].found < acct[i].ret /\ acct[i].ret < acct[i + 1].n * TokenUnit
        /\ acct[i + 1].op = "consume" /\ acct[i + 1].ok
        /\ acct[i + 1].t = acct[i].t + 1

\* the request dispatch has taken in with this step, if the step is one
Arrived == Len(mlog') = Len(mlog) + 1 /\ mlog'[Len(mlog')].id # None

\* the tokens of identifier i's bucket at the time of the step, after the
\* request e for identifier e.id has taken its token (if it got one); -1 when
\* the identifier has no bucket
TokensOf(i, e) ==
    LET found == IF mw.buckets[i] = 0
                 THEN IF i = e.id THEN mw.burst_size * TokenUnit ELSE -1
                 ELSE Level(mw.objs[mw.buckets[i]], now)
    IN  IF i = e.id /\ e.admitted THEN found - TokenUnit ELSE found

\* one cleanup ran in the step: exactly the buckets holding at least 95 % of
\* their capacity left the registry, the others stay with their tokens
CleanupRan(e) ==
    /\ mw'.last_cleanup = now
    /\ \A i \in Ids :
          IF TokensOf(i, e) = -1 \/ TokensOf(i, e) * 100 >= mw.burst_size * TokenUnit * 95
          THEN mw'.buckets[i] = 0
          ELSE /\ mw'.buckets[i] # 0
               /\ (mw.buckets[i] # 0 => mw'.buckets[i] = mw.buckets[i])
               /\ Level(mw'.objs[mw'.buckets[i]], now) = TokensOf(i, e)

\* no cleanup ran in the step: no bucket left the registry
NoCleanupRan(e) ==
    /\ mw'.last_cleanup = mw.last_cleanup
    /\ \A i \in Ids :
          IF TokensOf(i, e) = -1 THEN mw'.buckets[i] = 0
          ELSE /\ mw'.buckets[i] # 0
               /\ (mw.buckets[i] # 0 => mw'.buckets[i] = mw.buckets[i])
               /\ Level(mw'.objs[mw'.buckets[i]], now) = TokensOf(i, e)

(* C25 as stated: once more than cleanup_interval seconds have passed since
   last_cleanup, the next request on a rate-limited path runs one cleanup; no
   cleanup runs before. *)
C25_Original ==
    [][Arrived =>
          LET e == mlog'[Len(mlog')] IN
          IF now - mw.last_cleanup > cleanup_interval THEN CleanupRan(e) ELSE NoCleanupRan(e)]_vars

(* C25: once more than cleanup_interval seconds have passed since
   last_cleanup, the next request that dispatch admits runs one cleanup, after
   the request's token is taken: it removes exactly the buckets whose token
   count is at least 95 % of capacity, keeps every other bucket with its
   tokens, and sets last_cleanup to the current time.  A request rejected with
   429 runs no cleanup, and no cleanup runs before the interval has passed;
   the steps after call_next never run one. *)
C25_CleanupWhenAdmitted ==
    [][/\ Arrived =>
            LET e == mlog'[Len(mlog')] IN
            IF e.admitted /\ now - mw.last_cleanup > cleanup_interval
            THEN CleanupRan(e) ELSE NoCleanupRan(e)
       /\ ~Arrived => (mw'.last_cleanup = mw.last_cleanup /\ mw'.buckets = mw.buckets)]_vars

\* the request of y, admitted 301 s after construction, ran the cleanup: the
\* bucket of x, full again, is gone and y's own bucket (1 of 2 tokens) stays
C25_Witness ==
    /\ mw.burst_size = 2 /\ now = cleanup_interval + 1 /\ mw.last_cleanup = now
    /\ Len(mlog) = 2 /\ mlog[1].id = "x" /\ mlog[1].t = 0 /\ mlog[2].id = "y"
    /\ mw.buckets["x"] = 0 /\ mw.buckets["y"] = 2
    /\ mw.objs[2].tokens = TokenUnit

(* C26: FilesystemCache.get(key) never raises, whatever call of the
   filesystem fails and whatever another thread does to the file meanwhile;
   a get that no other call overlapped and in which no filesystem call failed
   returns the value the file holds (the one the last set wrote) when the
   file's age is at most ttl and leaves the file alone, removes the file and
   returns None when the file is older than ttl, and returns None when there
   is no file or its content cannot be loaded. *)
C26_FsGet ==
    [][\A t \in Threads :
          (fth[t].op = "get" /\ fth[t].pc # "idle" /\ fth'[t].pc = "idle") =>
              /\ ~fth'[t].raised
              /\ fth'[t].ret \in FsValues \cup {None}
              /\ (fth[t].alone /\ ~fth[t].faulty /\ fc'.faults = fc.faults) =>
                    LET f == fth[t].before IN
                    IF ~f.exists THEN fth'[t].ret = None /\ fc'.file = f
                    ELSE IF now - f.mtime > fc.ttl
                    THEN fth'[t].ret = None /\ ~fc'.file.exists
                    ELSE /\ fth'[t].ret = (IF f.data = Truncated THEN None ELSE f.data)
                         /\ fc'.file = f]_vars

\* the requests of identifier i admitted at the times s..t
AdmittedOf(log, i, s, t) ==
    {n \in 1..Len(log) : log[n].id = i /\ log[n].admitted /\ s <= log[n].t /\ log[n].t <= t}

\* the bucket (its index) of the last request of identifier i so far, 0 if none
LastBucketOf(i) ==
    LET mine == {n \in 1..Len(mlog) : mlog[n].id = i}
    IN  IF mine = {} THEN 0
        ELSE mlog[CHOOSE n \in mine : \A k \in mine : k <= n].bucket

(* C27: for every identifier and all times s <= t the requests of the
   identifier admitted at the times s..t are at most
   burst_size + (t - s) * requests_per_minute / 60; and the full bucket
   created for an identifier whose earlier bucket the cleanup has removed
   holds no more tokens than the removed bucket would hold at that time. *)
C27_AdmittedBound ==
    [][/\ \A i \in Ids : \A a, b \in 1..Len(mlog') :
            mlog'[a].t <= mlog'[b].t =>
                Cardinality(AdmittedOf(mlog', i, mlog'[a].t, mlog'[b].t)) * 60
                    <= mw.burst_size * 60 + (mlog'[b].t - mlog'[a].t) * mw.requests_per_minute
       /\ (Arrived /\ mlog'[Len(mlog')].created /\ LastBucketOf(mlog'[Len(mlog')].id) # 0) =>
            mw.burst_size * TokenUnit
                <= Level(mw.objs[LastBucketOf(mlog'[Len(mlog')].id)], now)]_vars

(* C28: capacity eviction in set does not look at expiry. An expired entry
   that was neither read nor swept stays in the cache and counts toward
   max_size: a set of a key that is not stored, with max_size entries stored,
   removes exactly the first (least recently used) entry, expired or not,
   and keeps every other entry, the expired ones included, in their order
   before the new entry. *)
C28_EvictionIgnoresExpiry ==
    [][(last'.op = "set" /\ last'.found = "absent" /\ Len(cache) >= max_size) =>
          /\ Len(cache) = max_size
          /\ last'.removed = {Head(cache).key}
          /\ Len(cache') = max_size
          /\ SubSeq(cache', 1, Len(cache') - 1) = Tail(cache)
          /\ cache'[Len(cache')].key = last'.key
          /\ cache'[Len(cache')].created_at = now
          /\ \A i \in 2..Len(cache) :
                is_expired(cache[i], now) => cache'[i - 1] = cache[i]]_vars

\* at capacity 2 the set of c at time 1 removed the least recently used a,
\* and b, which expired at time 1, is still stored
C28_Witness ==
    /\ last.op = "set" /\ last.found = "absent" /\ last.key = "c" /\ last.at = 1
    /\ last.removed = {"a"} /\ max_size = 2 /\ now = 1
    /\ Len(cache) = 2 /\ cache[1].key = "b" /\ is_expired(cache[1], now)
    /\ cache[2].key = "c" /\ ~is_expired(cache[2], now)

(* C29: a result equal to None is never served by the wrapper. A wrapper
   call returns without invoking the function only with a value other than
   None; a function result None is stored as an entry like any other; and a
   later wrapper call that finds this entry, not expired, is counted by the
   cache as a hit (the entry is read: access_count one higher), yet the
   wrapper goes on to invoke the function again. *)
C29_NoneNeverServed ==
    [][/\ (last'.op = "get" /\ last'.who # None /\ wr'[last'.who].pc = "idle") =>
            last'.ret # None
       /\ (last'.op = "set" /\ last'.who # None /\ last'.value = None) =>
            /\ Len(cache') >= 1
            /\ cache'[Len(cache')].key = last'.key
            /\ cache'[Len(cache')].value = None
            /\ cache'[Len(cache')].access_count = 0
       /\ (last'.op = "get" /\ last'.who # None /\ last'.found = "fresh"
              /\ Entry(cache, last'.key).value = None) =>
            /\ last'.ret = None
            /\ hits' = hits + 1 /\ misses' = misses
            /\ Entry(cache', last'.key).access_count
                   = Entry(cache, last'.key).access_count + 1
            /\ wr'[last'.who].pc = "call"
            /\ wr'[last'.who].key = last'.key]_vars

\* the second wrapper call of a key whose stored result is None: one miss
\* (the first call), one hit (this one), and the caller is about to invoke
\* the function again
C29_Witness ==
    /\ last.op = "get" /\ last.who # None /\ last.found = "fresh" /\ last.ret = None
    /\ hits = 1 /\ misses = 1
    /\ wr[last.who].pc = "call" /\ wr[last.who].key = last.key
    /\ HasKey(cache, last.key) /\ Entry(cache, last.key).value = None
    /\ Entry(cache, last.key).access_count = 1

(* C30: the wrapper's lookup (cache.get) and store (cache.set) are two
   separate critical sections, and the function runs between them with no
   cache lock held. Every store of a wrapper leaves exactly one entry under
   its key, holding the result this caller's invocation returned (so after
   two concurrent calls of one key the result stored last), and never more
   than max_size entries; while a caller is between its lookup and the end
   of its store, the cache lock is free. Two callers that both looked the
   same key up while nothing was cached both invoke the function (the
   witness). *)
C30_ConcurrentWrappers ==
    [][/\ (last'.op = "set" /\ last'.who # None) =>
            /\ Cardinality({i \in 1..Len(cache') : cache'[i].key = last'.key}) = 1
            /\ Entry(cache', last'.key).value = wr[last'.who].result
            /\ cache'[Len(cache')].key = last'.key
            /\ wr[last'.who].pc = "store" /\ wr'[last'.who].pc = "idle"
       /\ Len(cache') <= max_size
       /\ \A i, j \in 1..Len(cache') : cache'[i].key = cache'[j].key => i = j
       /\ (\E w \in Callers : wr'[w].pc # "idle") => lock' = "None"
       /\ \A w \in Callers :
            (wr[w].pc = "call" /\ wr'[w].pc = "store") =>
                (last'.op = "func" /\ last'.who = w /\ cache' = cache)]_vars

\* both lookups missed at time 0 (no hit, two misses), both callers invoked
\* the function, and the second store finds the entry the first one stored
\* under the same key and replaces it: one entry, holding the later result
C30_Witness ==
    /\ now = 0 /\ hits = 0 /\ misses = 2
    /\ last.op = "set" /\ last.who = "w2" /\ last.found = "fresh" /\ last.value = None
    /\ wr["w1"].pc = "idle" /\ wr["w2"].pc = "idle"
    /\ Len(cache) = 1 /\ cache[1].key = last.key /\ cache[1].value = None

====
